---------------------------- MODULE Spec2Model ----------------------------
(***************************************************************************)
(* A model of the serial-gps adapter (src/src/main.ts): the checksum       *)
(* verifier, the coordinate and date/time decoders, the sentence decoder,  *)
(* the stream framer, the change-debounced output cache and the            *)
(* connection / reconnect manager.                                         *)
(*                                                                         *)
(* Text is a sequence of one-character strings.  A number is a reduced     *)
(* fraction [n, d] or the token NaN.  An async function is a task that     *)
(* advances from one await to the next in one step.                        *)
(***************************************************************************)
EXTENDS Integers, Sequences, FiniteSets, TLC

\* ------------------------------------------------------------------------
\* JavaScript values
\* ------------------------------------------------------------------------

\* A value is a tagged record: a number [t, n, d] (the reduced fraction
\* n/d), NaN, null, a boolean, or a string.  undefined, for text, is a
\* sequence that is no text.
NaN == [t |-> "nan"]
Null == [t |-> "null"]
UNDEF == <<"undefined">>
VBool(b) == [t |-> "bool", b |-> b]
VStr(s) == [t |-> "str", s |-> s]

Printable ==
  << " ", "!", "U+0022", "#", "$", "%", "&", "'", "(", ")", "*", "+", ",", "-", ".", "/",
     "0", "1", "2", "3", "4", "5", "6", "7", "8", "9", ":", ";", "<", "=", ">", "?",
     "@", "A", "B", "C", "D", "E", "F", "G", "H", "I", "J", "K", "L", "M", "N", "O",
     "P", "Q", "R", "S", "T", "U", "V", "W", "X", "Y", "Z", "[", "U+005C", "]", "^", "_",
     "U+0060", "a", "b", "c", "d", "e", "f", "g", "h", "i", "j", "k", "l", "m", "n", "o",
     "p", "q", "r", "s", "t", "u", "v", "w", "x", "y", "z", "{", "|", "}", "~" >>

\* (The double quote, the backslash and the backtick stand in the table
\* as U+0022, U+005C and U+0060.)
\* Characters outside printable ASCII that the model uses: the line
\* terminator, carriage return, tab, U+00E9 and the replacement character
\* U+FFFD that a UTF-8 decoder puts in place of an invalid sequence.
LF == "\n"
CR == "\r"
TAB == "\t"
EACUTE == "U+00E9"
REPL == "U+FFFD"

\* String.prototype.charCodeAt
charCodeAt(c) ==
  CASE c = LF -> 10
    [] c = CR -> 13
    [] c = TAB -> 9
    [] c = EACUTE -> 233
    [] c = REPL -> 65533
    [] OTHER -> 31 + (CHOOSE i \in 1..Len(Printable) : Printable[i] = c)

WhiteSpace == {" ", TAB, LF, CR}
Digits == <<"0", "1", "2", "3", "4", "5", "6", "7", "8", "9">>
IsDigit(c) == \E i \in 1..10 : Digits[i] = c
DigitVal(c) == (CHOOSE i \in 1..10 : Digits[i] = c) - 1

\* String.prototype.toUpperCase, one character
UpperChar(c) ==
  LET code == charCodeAt(c)
  IN  IF code >= 97 /\ code <= 122 THEN Printable[code - 32 - 31] ELSE c

toUpperCase(s) == [i \in 1..Len(s) |-> UpperChar(s[i])]

\* String.prototype.indexOf(ch), 0-based, -1 when absent
indexOf(s, ch) ==
  IF \E i \in 1..Len(s) : s[i] = ch
  THEN (CHOOSE i \in 1..Len(s) : s[i] = ch /\ \A j \in 1..(i - 1) : s[j] # ch) - 1
  ELSE -1

Min(a, b) == IF a < b THEN a ELSE b
Max(a, b) == IF a > b THEN a ELSE b

\* String.prototype.substring(from, to) / slice(from, to) for 0 <= from
substring(s, from, to) ==
  LET f == Min(Max(from, 0), Len(s))
      t == Min(Max(to, 0), Len(s))
  IN  IF f >= t THEN <<>> ELSE SubSeq(s, f + 1, t)

substringFrom(s, from) == substring(s, from, Len(s))

trimStart(s) ==
  LET black == {i \in 1..Len(s) : s[i] \notin WhiteSpace}
  IN  IF black = {} THEN <<>>
      ELSE SubSeq(s, CHOOSE i \in black : \A j \in black : i <= j, Len(s))

trimEnd(s) ==
  LET black == {i \in 1..Len(s) : s[i] \notin WhiteSpace}
  IN  IF black = {} THEN <<>>
      ELSE SubSeq(s, 1, CHOOSE i \in black : \A j \in black : i >= j)

\* String.prototype.trim
trim(s) == trimEnd(trimStart(s))

\* String.prototype.split(sep) for a one-character separator
split(s, sep) ==
  LET cuts == {i \in 1..Len(s) : s[i] = sep}
      \* the k-th cut position, with 0 and Len(s) + 1 at the two ends
      cut(k) == IF k = 0 THEN 0
                ELSE IF k > Cardinality(cuts) THEN Len(s) + 1
                ELSE CHOOSE i \in cuts : Cardinality({j \in cuts : j < i}) = k - 1
  IN  [k \in 1..(Cardinality(cuts) + 1) |-> SubSeq(s, cut(k - 1) + 1, cut(k) - 1)]

endsWith(s, suffix) ==
  /\ Len(s) >= Len(suffix)
  /\ SubSeq(s, Len(s) - Len(suffix) + 1, Len(s)) = suffix

\* the concatenation of ss[lo..hi], by halves
RECURSIVE FlattenRange(_, _, _)
FlattenRange(ss, lo, hi) ==
  IF lo > hi THEN <<>>
  ELSE IF lo = hi THEN ss[lo]
  ELSE LET mid == (lo + hi) \div 2
       IN  FlattenRange(ss, lo, mid) \o FlattenRange(ss, mid + 1, hi)

Flatten(ss) == FlattenRange(ss, 1, Len(ss))

\* ------------------------------------------------------------------------
\* Numbers: reduced fractions
\* ------------------------------------------------------------------------

Abs(x) == IF x < 0 THEN -x ELSE x

RECURSIVE GCD(_, _)
GCD(a, b) == IF b = 0 THEN a ELSE GCD(b, a % b)

Rat(n, d) ==
  LET g == GCD(Abs(n), d)
  IN  IF n = 0 THEN [t |-> "num", n |-> 0, d |-> 1]
      ELSE [t |-> "num", n |-> n \div g, d |-> d \div g]

Num(i) == [t |-> "num", n |-> i, d |-> 1]
RatAdd(a, b) == Rat(a.n * b.d + b.n * a.d, a.d * b.d)
RatDivInt(a, k) == Rat(a.n, a.d * k)
RatMulInt(a, k) == Rat(a.n * k, a.d)
RatNeg(a) == [t |-> "num", n |-> -a.n, d |-> a.d]
RatFloor(a) == a.n \div a.d
isNaN(x) == x = NaN

RECURSIVE Pow10(_)
Pow10(k) == IF k = 0 THEN 1 ELSE 10 * Pow10(k - 1)

RECURSIVE NatOfDigits(_)
NatOfDigits(ds) ==
  IF ds = <<>> THEN 0
  ELSE 10 * NatOfDigits(SubSeq(ds, 1, Len(ds) - 1)) + DigitVal(ds[Len(ds)])

RECURSIVE LeadingDigits(_)
LeadingDigits(s) ==
  IF s # <<>> /\ IsDigit(Head(s)) THEN <<Head(s)>> \o LeadingDigits(Tail(s)) ELSE <<>>

\* an optional sign at the start of trimmed text
Negative(t) == t # <<>> /\ Head(t) = "-"
Unsigned(t) == IF t # <<>> /\ Head(t) \in {"+", "-"} THEN Tail(t) ELSE t

IntFrom(ds, neg) ==
  IF ds = <<>> THEN NaN
  ELSE Num(IF neg THEN -NatOfDigits(ds) ELSE NatOfDigits(ds))

\* parseInt(s, 10): leading white space, an optional sign, the longest run
\* of digits; NaN when there is none (also for undefined).
IntOfTrimmed(t) == IntFrom(LeadingDigits(Unsigned(t)), Negative(t))

parseInt(s) == IF s = UNDEF THEN NaN ELSE IntOfTrimmed(trimStart(s))

\* parseFloat(s): leading white space, an optional sign, digits with an
\* optional fraction; NaN when no digit is found.  (Exponents and the
\* literal Infinity are not modelled: the input alphabets hold neither.)
\* The digits after the point:
FractionDigits(after) ==
  IF after # <<>> /\ Head(after) = "." THEN LeadingDigits(Tail(after)) ELSE <<>>

FloatFrom(ip, fp, neg) ==
  IF ip = <<>> /\ fp = <<>> THEN NaN
  ELSE Rat((IF neg THEN -1 ELSE 1) * (NatOfDigits(ip) * Pow10(Len(fp)) + NatOfDigits(fp)),
           Pow10(Len(fp)))

FloatOfDigits(u, ip, neg) == FloatFrom(ip, FractionDigits(substringFrom(u, Len(ip))), neg)

FloatOfTrimmed(t) == FloatOfDigits(Unsigned(t), LeadingDigits(Unsigned(t)), Negative(t))

parseFloat(s) == IF s = UNDEF THEN NaN ELSE FloatOfTrimmed(trimStart(s))

\* x || 0 for a parsed number
OrZero(x) == IF x = NaN \/ x = Num(0) THEN Num(0) ELSE x

\* a falsy string argument: undefined or empty
Falsy(s) == s = UNDEF \/ s = <<>>

\* fields[i] of an array, 0-based: undefined beyond its end
Field(fields, i) == IF i + 1 <= Len(fields) THEN fields[i + 1] ELSE UNDEF

\* ------------------------------------------------------------------------
\* verifyChecksum
\* ------------------------------------------------------------------------

RECURSIVE BitXor(_, _)
BitXor(a, b) ==
  IF a = 0 THEN b
  ELSE IF b = 0 THEN a
  ELSE (((a % 2) + (b % 2)) % 2) + 2 * BitXor(a \div 2, b \div 2)

\* chk ^= payload.charCodeAt(i) over s[lo..hi]; XOR is associative, so the
\* range is folded by halves
RECURSIVE XorRange(_, _, _)
XorRange(s, lo, hi) ==
  IF lo > hi THEN 0
  ELSE IF lo = hi THEN charCodeAt(s[lo])
  ELSE LET mid == (lo + hi) \div 2
       IN  BitXor(XorRange(s, lo, mid), XorRange(s, mid + 1, hi))

XorCodes(s) == XorRange(s, 1, Len(s))

HexDigits ==
  <<"0", "1", "2", "3", "4", "5", "6", "7", "8", "9", "A", "B", "C", "D", "E", "F">>

\* chk.toString(16).toUpperCase()
RECURSIVE toHex(_)
toHex(n) ==
  IF n < 16 THEN <<HexDigits[n + 1]>>
  ELSE toHex(n \div 16) \o <<HexDigits[(n % 16) + 1]>>

padStart2(s) == IF Len(s) < 2 THEN <<"0">> \o s ELSE s

\* (a variant that keeps the white space around the checksum text)
ChecksumTextUntrimmed(sentence, asterisk) == substringFrom(sentence, asterisk + 1)

\* sentence.substring(asterisk + 1).trim()
ChecksumText(sentence, asterisk) == trim(substringFrom(sentence, asterisk + 1))

ChecksumMatches(sentence, asterisk) ==
  padStart2(toHex(XorCodes(substring(sentence, 0, asterisk))))
    = toUpperCase(ChecksumText(sentence, asterisk))

verifyChecksum(sentence) ==
  IF indexOf(sentence, "*") = -1 THEN TRUE
  ELSE ChecksumMatches(sentence, indexOf(sentence, "*"))

\* ------------------------------------------------------------------------
\* nmeaToDecimal
\* ------------------------------------------------------------------------

Txt1(c) == <<c>>

\* (a variant that takes two degree digits for every hemisphere)
DegLenTwo(hemi) == 2

\* the length of the degree prefix: 2 for N/S, 3 otherwise
DegLen(hemi) == IF hemi = Txt1("N") \/ hemi = Txt1("S") THEN 2 ELSE 3

\* the sign applied for the hemisphere
Signed(val, hemi) ==
  IF hemi = Txt1("S") \/ hemi = Txt1("W") THEN RatNeg(val) ELSE val

DecimalOf(deg, min, hemi) ==
  IF isNaN(deg) \/ isNaN(min) THEN Null
  ELSE Signed(RatAdd(deg, RatDivInt(min, 60)), hemi)

nmeaToDecimal(coord, hemi) ==
  IF Falsy(coord) THEN Null
  ELSE IF indexOf(coord, ".") = -1 THEN Null
  ELSE IF Len(coord) <= DegLen(hemi) THEN Null
  ELSE DecimalOf(parseInt(substring(coord, 0, DegLen(hemi))),
                 parseFloat(substringFrom(coord, DegLen(hemi))), hemi)

\* ------------------------------------------------------------------------
\* parseNmeaDateTime
\* ------------------------------------------------------------------------

\* The host's current UTC calendar date (new Date()), month 0-based.
HostDate == [year |-> 2026, month |-> 10, day |-> 4]

MsPerDay == 86400000

\* Days from 1970-01-01 to the first day of month m (1..12) of year y.
DaysFromCivil(y, m) ==
  LET yy == IF m <= 2 THEN y - 1 ELSE y
      era == yy \div 400
      yoe == yy - era * 400
      mp == IF m > 2 THEN m - 3 ELSE m + 9
      doy == (153 * mp + 2) \div 5
      doe == yoe * 365 + (yoe \div 4) - (yoe \div 100) + doy
  IN  era * 146097 + doe - 719468

\* Date.UTC(year, month, day, hh, mm, ss, ms): an instant as whole days
\* since the epoch and milliseconds within the day; out-of-range parts
\* carry over; NaN when a part is NaN.
DateUTC(year, month, day, hh, mm, ss, ms) ==
  IF \E x \in {year, month, day, hh, mm, ss} : isNaN(x) THEN NaN
  ELSE
    LET y0 == IF year.n >= 0 /\ year.n <= 99 THEN 1900 + year.n ELSE year.n
        ym == y0 + (month.n \div 12)
        mn == month.n % 12
        t == hh.n * 3600000 + mm.n * 60000 + ss.n * 1000 + ms
        d == DaysFromCivil(ym, mn + 1) + (day.n - 1) + (t \div MsPerDay)
    IN  [t |-> "ts", days |-> d, ms |-> t % MsPerDay]

OrText(s, dflt) == IF s = <<>> THEN dflt ELSE s

\* whether the date argument is used: present and at least 6 long
DateUsable(dateStr) == ~Falsy(dateStr) /\ Len(dateStr) >= 6

\* the century rule for a two-digit year
FullYear(yy) == IF yy.n >= 70 THEN Num(1900 + yy.n) ELSE Num(2000 + yy.n)

\* Math.floor(secFloat) and Math.round((secFloat - ss) * 1000)
Seconds(secFloat) == IF isNaN(secFloat) THEN NaN ELSE Num(RatFloor(secFloat))
RoundMs(frac) == (2000 * frac.n + frac.d) \div (2 * frac.d)
Millis(secFloat) ==
  IF isNaN(secFloat) THEN 0
  ELSE RoundMs(RatAdd(secFloat, Num(-RatFloor(secFloat))))

YearOf(yy) == IF isNaN(yy) THEN NaN ELSE FullYear(yy)
MonthOf(mon) == IF isNaN(mon) THEN NaN ELSE Num(mon.n - 1)

\* year, month and day: of the date text when it is used, else of the host
CalendarDate(dateStr) ==
  IF DateUsable(dateStr)
  THEN [year |-> YearOf(parseInt(OrText(substring(dateStr, 4, 6), Txt1("0")))),
        month |-> MonthOf(parseInt(OrText(substring(dateStr, 2, 4), Txt1("1")))),
        day |-> parseInt(OrText(substring(dateStr, 0, 2), Txt1("1")))]
  ELSE [year |-> Num(HostDate.year), month |-> Num(HostDate.month),
        day |-> Num(HostDate.day)]

TimeOn(date, hh, mm, secFloat) ==
  DateUTC(date.year, date.month, date.day, hh, mm, Seconds(secFloat), Millis(secFloat))

parseNmeaDateTime(timeStr, dateStr) ==
  IF Falsy(timeStr) THEN Null
  ELSE TimeOn(CalendarDate(dateStr),
              parseInt(OrText(substring(timeStr, 0, 2), Txt1("0"))),
              parseInt(OrText(substring(timeStr, 2, 4), Txt1("0"))),
              parseFloat(OrText(substringFrom(timeStr, 4), Txt1("0"))))

\* ------------------------------------------------------------------------
\* parseData: one sentence
\* ------------------------------------------------------------------------

Upd(id, val) == [id |-> id, val |-> val]

GGA == <<"G", "G", "A">>
RMC == <<"R", "M", "C">>
GSA == <<"G", "S", "A">>

\* `${a};${b}`: number formatting is one-to-one, so the text is kept as
\* the pair of numbers it is made of
Pair(a, b) == [t |-> "pair", a |-> a, b |-> b]

\* (a variant that sends each coordinate that decoded, without the other)
PositionUpdatesEither(lat, lon) ==
  (IF lat # Null THEN <<Upd("gps.latitude", lat)>> ELSE <<>>)
  \o (IF lon # Null THEN <<Upd("gps.longitude", lon)>> ELSE <<>>)
  \o (IF lat # Null /\ lon # Null
      THEN <<Upd("gps.position", Pair(lon, lat)), Upd("gps.latlon", Pair(lat, lon))>>
      ELSE <<>>)

PositionUpdates(lat, lon) ==
  IF lat # Null /\ lon # Null
  THEN << Upd("gps.latitude", lat), Upd("gps.longitude", lon),
          Upd("gps.position", Pair(lon, lat)), Upd("gps.latlon", Pair(lat, lon)) >>
  ELSE <<>>

\* (a variant that forgets the carried date)
DateArgNone(lastDate) == UNDEF

\* this.lastDate || undefined
DateArg(lastDate) == IF lastDate = <<>> THEN UNDEF ELSE lastDate

TimestampUpdate(ts) == IF ts # Null THEN <<Upd("gps.timestamp", ts)>> ELSE <<>>

\* (a variant in which any fix quality other than 0 signals a connection)
GgaCallsAnyFix(tsUpdate, lat, lon, fix, sats, hdop, alt) ==
  tsUpdate
  \o (IF ~isNaN(fix) THEN <<Upd("gps.fix_quality", fix)>> ELSE <<>>)
  \o PositionUpdates(lat, lon)
  \o << Upd("gps.satellites", sats), Upd("gps.hdop", hdop),
        Upd("gps.altitude", alt), Upd("info.connection", VBool(fix.n # 0)) >>

\* the calls of the GGA branch, given what it decoded
GgaCalls(tsUpdate, lat, lon, fix, sats, hdop, alt) ==
  tsUpdate
  \o (IF ~isNaN(fix) THEN <<Upd("gps.fix_quality", fix)>> ELSE <<>>)
  \o PositionUpdates(lat, lon)
  \o << Upd("gps.satellites", sats), Upd("gps.hdop", hdop),
        Upd("gps.altitude", alt), Upd("info.connection", VBool(fix.n > 0)) >>

GgaUpdates(fields, lastDate) ==
  GgaCalls(IF ~Falsy(Field(fields, 1))
           THEN TimestampUpdate(parseNmeaDateTime(Field(fields, 1), DateArg(lastDate)))
           ELSE <<>>,
           nmeaToDecimal(Field(fields, 2), Field(fields, 3)),
           nmeaToDecimal(Field(fields, 4), Field(fields, 5)),
           OrZero(parseInt(Field(fields, 6))),
           OrZero(parseInt(Field(fields, 7))),
           OrZero(parseFloat(Field(fields, 8))),
           OrZero(parseFloat(Field(fields, 9))))

\* +(speedKnots * 1.852).toFixed(2)
Round2(x) == Rat((200 * x.n + x.d) \div (2 * x.d), 100)
SpeedKmh(knots) == Round2(Rat(knots.n * 1852, knots.d * 1000))

\* the calls of the RMC branch, given what it decoded
RmcCalls(dateStr, ts, lat, lon, speedKnots, course, status) ==
  (IF ~Falsy(dateStr) THEN <<Upd("gps.date", VStr(dateStr))>> ELSE <<>>)
  \o TimestampUpdate(ts)
  \o PositionUpdates(lat, lon)
  \o << Upd("gps.speed_knots", speedKnots), Upd("gps.speed_kmh", SpeedKmh(speedKnots)),
        Upd("gps.course", course), Upd("info.connection", VBool(status = Txt1("A"))) >>

RmcUpdates(fields) ==
  RmcCalls(Field(fields, 9),
           parseNmeaDateTime(Field(fields, 1), Field(fields, 9)),
           nmeaToDecimal(Field(fields, 3), Field(fields, 4)),
           nmeaToDecimal(Field(fields, 5), Field(fields, 6)),
           OrZero(parseFloat(Field(fields, 7))),
           OrZero(parseFloat(Field(fields, 8))),
           Field(fields, 2))

\* fix_mode: '2' -> "2D", '3' -> "3D", else the field as it is
FixModeLabel(f2) ==
  IF Falsy(f2) THEN <<>>
  ELSE IF f2 = Txt1("2") THEN <<"2", "D">>
  ELSE IF f2 = Txt1("3") THEN <<"3", "D">> ELSE f2

GsaUpdates(fields) ==
  << Upd("gps.fix_mode", VStr(FixModeLabel(Field(fields, 2)))),
     Upd("gps.pdop", OrZero(parseFloat(Field(fields, 15)))),
     Upd("gps.hdop", OrZero(parseFloat(Field(fields, 16)))),
     Upd("gps.vdop", OrZero(parseFloat(Field(fields, 17)))) >>

\* sentence.replace(/\r?\n/g, '')
RemoveNewlines(s) ==
  LET gone(i) == s[i] = LF \/ (s[i] = CR /\ i < Len(s) /\ s[i + 1] = LF)
  IN  Flatten([i \in 1..Len(s) |-> IF gone(i) THEN <<>> ELSE <<s[i]>>])

\* text.split('$').map(p => p.trim()).filter(p => p.length > 0)
Parts(text) ==
  LET ps == split(text, "$")
      ts == [i \in 1..Len(ps) |-> trim(ps[i])]
  IN  SelectSeq(ts, LAMBDA p : p # <<>>)

\* the body of a part: the sentence without its leading $
Body(raw) == Tail(trim(RemoveNewlines(<<"$">> \o raw)))

\* the fields of a body whose checksum was accepted
Fields(body) ==
  LET asteriskIdx == indexOf(body, "*")
      payload == IF asteriskIdx >= 0 THEN substring(body, 0, asteriskIdx) ELSE body
  IN  split(payload, ",")

\* (a variant that knows the sentences of the talker GP only)
KindOfGpOnly(type) ==
  IF type = <<"G", "P">> \o GGA THEN "GGA"
  ELSE IF type = <<"G", "P">> \o RMC THEN "RMC"
  ELSE IF type = <<"G", "P">> \o GSA THEN "GSA"
  ELSE "unhandled"

KindOf(type) ==
  IF endsWith(type, GGA) THEN "GGA"
  ELSE IF endsWith(type, RMC) THEN "RMC"
  ELSE IF endsWith(type, GSA) THEN "GSA"
  ELSE "unhandled"

\* (a variant that decodes a sentence whatever its checksum)
SentenceKindUnchecked(body) == KindOf(Fields(body)[1])

SentenceKind(body) ==
  IF ~verifyChecksum(body) THEN "rejected" ELSE KindOf(Fields(body)[1])

\* the calls of setStateIfChangedAsync that decoding one sentence makes,
\* in order, given the carried date read when the decoding starts
UpdatesOf(kind, fields, lastDate) ==
  CASE kind = "GGA" -> GgaUpdates(fields, lastDate)
    [] kind = "RMC" -> RmcUpdates(fields)
    [] kind = "GSA" -> GsaUpdates(fields)
    [] OTHER -> <<>>

SentenceUpdates(body, lastDate) == UpdatesOf(SentenceKind(body), Fields(body), lastDate)

\* this.lastDate after the sentence
DateAfter(kind, fields, lastDate) ==
  IF kind = "RMC" /\ ~Falsy(Field(fields, 9)) THEN Field(fields, 9) ELSE lastDate

SentenceDate(body, lastDate) == DateAfter(SentenceKind(body), Fields(body), lastDate)

\* one sentence decoded: its calls and this.lastDate after it
Decoded(kind, fields, lastDate) ==
  [ups |-> UpdatesOf(kind, fields, lastDate), date |-> DateAfter(kind, fields, lastDate)]

Decode(body, lastDate) == Decoded(SentenceKind(body), Fields(body), lastDate)

\* ------------------------------------------------------------------------
\* Bounds of the model
\* ------------------------------------------------------------------------

\* async handlers in flight at once
MaxTasks == 3
\* serial handles alive at once
MaxHandles == 2

\* ------------------------------------------------------------------------
\* State
\* ------------------------------------------------------------------------

VARIABLES
  serialPort,      \* this.serialPort: NoPort (undefined), DeadPort (a handle that
                   \* is closed) or the slot of a live handle
  handles,         \* slot -> "free" | "opening" | "open" | "closing"
  reconnectTimer,  \* this.reconnectTimer is set
  timers,          \* setTimeout timers that are live (scheduled, not fired or cleared)
  probe,           \* the probe port of testPort: "none" | "opening" | "open" | "closing"
  udpServer,       \* this.udpServer is bound
  recvBuffer,      \* this.recvBuffer
  lastDate,        \* this.lastDate
  lastStates,      \* this.lastStates: channel id -> NoEntry | [val, ts]
  sink,            \* the external state store: channel id -> NoValue | value
  sinkQueue,       \* setStateAsync writes sent and not yet answered, in order
  now,             \* Date.now(), in milliseconds
  tasks,           \* slot -> the async handler in flight there, or Idle
  unloaded,        \* the unload callback was called
  faults,          \* promise rejections nobody handles, by origin (history)
  hist,            \* history: bytes received, lines framed, sentences decoded, calls
  left,            \* what the environment may still do (event budgets)
  fn               \* a pure function under test: its argument and its result

vars ==
  << serialPort, handles, reconnectTimer, timers, probe, udpServer, recvBuffer,
     lastDate, lastStates, sink, sinkQueue, now, tasks, unloaded, faults, hist,
     left, fn >>

Channels ==
  { "info.connection", "gps.latitude", "gps.longitude", "gps.position", "gps.latlon",
    "gps.altitude", "gps.fix_quality", "gps.fix_mode", "gps.satellites", "gps.hdop",
    "gps.pdop", "gps.vdop", "gps.speed_knots", "gps.speed_kmh", "gps.course",
    "gps.date", "gps.timestamp" }

Failed == [t |-> "error"]
NoEntry == [t |-> "none"]
NoValue == [t |-> "none"]
Idle == [pc |-> "idle", kind |-> "none", wait |-> "none"]

TaskIds == 1..MaxTasks
HandleIds == 1..MaxHandles

FreeTask == CHOOSE i \in TaskIds : tasks[i] = Idle /\ \A j \in TaskIds : tasks[j] = Idle => i <= j
HasFreeTask == \E i \in TaskIds : tasks[i] = Idle

\* ------------------------------------------------------------------------
\* setStateIfChangedAsync
\* ------------------------------------------------------------------------

\* the refresh window of the debounce cache, in milliseconds
RefreshMs == 60000

\* value !== prev.val
StrictNeq(a, b) == a = NaN \/ a # b

\* (a variant without the periodic refresh: only a changed value is forwarded)
ForwardsChangedOnly(cache, id, value, t) ==
  cache[id] = NoEntry \/ StrictNeq(value, cache[id].val)

\* the decision: TRUE when the value is forwarded to the sink
Forwards(cache, id, value, t) ==
  ~(~(cache[id] = NoEntry \/ StrictNeq(value, cache[id].val))
    /\ cache[id] # NoEntry
    /\ t - cache[id].ts < RefreshMs)

\* The part of setStateIfChangedAsync(id, value) that runs before its await,
\* called by task tid on the debounce state D = [cache, queue, calls]: the
\* cache entry is written and the write sent when the value is forwarded.
Decided(D, tid, id, value, t, fwd) ==
  IF fwd
  THEN [cache |-> [D.cache EXCEPT ![id] = [val |-> value, ts |-> t]],
        queue |-> Append(D.queue, [task |-> tid, id |-> id, val |-> value]),
        calls |-> Append(D.calls, [id |-> id, val |-> value, at |-> t, fwd |-> TRUE]),
        wait |-> "sink"]
  ELSE [cache |-> D.cache, queue |-> D.queue,
        calls |-> Append(D.calls, [id |-> id, val |-> value, at |-> t, fwd |-> FALSE]),
        wait |-> "ready"]

setStateIfChanged(D, tid, id, value, t) ==
  Decided(D, tid, id, value, t, Forwards(D.cache, id, value, t))

\* ------------------------------------------------------------------------
\* The adapter's state as one record, so that a handler is a function on it
\* ------------------------------------------------------------------------

World ==
  [ serialPort |-> serialPort, handles |-> handles, reconnectTimer |-> reconnectTimer,
    timers |-> timers, probe |-> probe, udpServer |-> udpServer,
    recvBuffer |-> recvBuffer, lastDate |-> lastDate, lastStates |-> lastStates,
    sink |-> sink, sinkQueue |-> sinkQueue, tasks |-> tasks, unloaded |-> unloaded,
    faults |-> faults, hist |-> hist,
    wait |-> "ready", h |-> 0 ]   \* scratch: what the last call left to await

Commit(W) ==
  /\ serialPort' = W.serialPort
  /\ handles' = W.handles
  /\ reconnectTimer' = W.reconnectTimer
  /\ timers' = W.timers
  /\ probe' = W.probe
  /\ udpServer' = W.udpServer
  /\ recvBuffer' = W.recvBuffer
  /\ lastDate' = W.lastDate
  /\ lastStates' = W.lastStates
  /\ sink' = W.sink
  /\ sinkQueue' = W.sinkQueue
  /\ tasks' = W.tasks
  /\ unloaded' = W.unloaded
  /\ faults' = W.faults
  /\ hist' = W.hist

SetTask(W, tid, rec) == [W EXCEPT !.tasks[tid] = rec]
EndTask(W, tid) == [W EXCEPT !.tasks[tid] = Idle]

\* history is kept only where a specification asks for it
Log(W, field, entry) ==
  IF field \in left.rec THEN [W EXCEPT !.hist[field] = Append(@, entry)] ELSE W

\* await this.setStateIfChangedAsync(id, value), up to the await
Called(W, r) ==
  [W EXCEPT !.lastStates = r.cache,
            !.sinkQueue = r.queue,
            !.hist.calls = IF "calls" \in left.rec THEN r.calls ELSE @,
            !.wait = r.wait]

Call(W, tid, id, value) ==
  Called(W, setStateIfChanged(
              [cache |-> W.lastStates, queue |-> W.sinkQueue, calls |-> W.hist.calls],
              tid, id, value, now))

\* the task tid is left at the await that W has just reached
Awaiting(W, tid, rec) == SetTask(W, tid, [rec EXCEPT !.wait = W.wait])

\* await this.setStateAsync(id, value, true): a write that bypasses the cache
DirectWrite(W, tid, id, value) ==
  [W EXCEPT !.sinkQueue = Append(@, [task |-> tid, id |-> id, val |-> value]),
            !.wait = "sink"]

\* ------------------------------------------------------------------------
\* parseData and processReceivedData
\* ------------------------------------------------------------------------

\* parseData from the part parts[1] on, up to its next await: sentences that
\* make no call are passed over; the first call of the next one is made.
\* When no part is left parseData returns, and processReceivedData resumes
\* after its await of it.
RECURSIVE RunParse(_, _, _, _)

\* the sentence is decoded: this.lastDate is set; without a call the loop
\* goes on, else the first call is made and awaited
Sentence(W, tid, kind, rest, body, d) ==
  IF d.ups = <<>>
  THEN RunParse(Log([W EXCEPT !.lastDate = d.date], "decoded",
                    [body |-> body, ups |-> d.ups]),
                tid, kind, rest)
  ELSE Awaiting(Call(Log([W EXCEPT !.lastDate = d.date], "decoded",
                         [body |-> body, ups |-> d.ups]),
                     tid, d.ups[1].id, d.ups[1].val),
                tid, [pc |-> "pd.upd", kind |-> kind, wait |-> "ready",
                      todo |-> Tail(d.ups), parts |-> rest])

RunParse(W, tid, kind, parts) ==
  IF parts = <<>>
  THEN SetTask(W, tid, [pc |-> "prd.line", kind |-> kind, wait |-> "ready"])
  ELSE Sentence(W, tid, kind, Tail(parts), Body(Head(parts)),
                Decode(Body(Head(parts)), W.lastDate))

\* the while loop of processReceivedData, at the test of idx
ProcessLoop(W, tid, kind) ==
  IF indexOf(W.recvBuffer, LF) = -1 THEN EndTask(W, tid)
  ELSE RunParse(Log([W EXCEPT !.recvBuffer = substringFrom(@, indexOf(@, LF) + 1)],
                    "lines", substring(W.recvBuffer, 0, indexOf(W.recvBuffer, LF) + 1)),
                tid, kind,
                Parts(substring(W.recvBuffer, 0, indexOf(W.recvBuffer, LF) + 1)))

\* Buffer.toString('utf8') on the bytes of one chunk.  A byte is its ASCII
\* character, or one of the two bytes 0xC3 0xA9 of U+00E9; either of these
\* without the other decodes to U+FFFD.
ByteC3 == "0xC3"
ByteA9 == "0xA9"

toStringUtf8(data) ==
  LET ch(i) ==
        IF data[i] = ByteC3
        THEN IF i < Len(data) /\ data[i + 1] = ByteA9 THEN <<EACUTE>> ELSE <<REPL>>
        ELSE IF data[i] = ByteA9
        THEN IF i > 1 /\ data[i - 1] = ByteC3 THEN <<>> ELSE <<REPL>>
        ELSE <<data[i]>>
  IN  Flatten([i \in 1..Len(data) |-> ch(i)])

\* (a variant that keeps only the last chunk in the buffer)
processLastChunk(W, tid, kind, data) ==
  ProcessLoop([W EXCEPT !.recvBuffer = toStringUtf8(data)], tid, kind)

processReceivedData(W, tid, kind, data) ==
  ProcessLoop([W EXCEPT !.recvBuffer = @ \o toStringUtf8(data)], tid, kind)

\* (a variant in which the exception of a failed sink write leaves parseData
\* and processReceivedData: the handler ends with an unhandled rejection)
SinkFailureEscapes(W, tid) ==
  EndTask([W EXCEPT !.faults = @ \cup {"stream"}], tid)

\* A sink write of a sentence failed: the await throws inside the try of
\* parseData, its catch logs the error, and the for loop goes on with the
\* next part of the line.
OnSinkFailure(W, tid) ==
  RunParse(W, tid, W.tasks[tid].kind, W.tasks[tid].parts)

\* a step of a task inside parseData or processReceivedData, after its await
\* was answered (ok) or failed
StreamResume(W, tid, ok) ==
  LET T == W.tasks[tid]
  IN  IF T.pc = "prd.line" THEN ProcessLoop(W, tid, T.kind)
      ELSE IF ~ok THEN OnSinkFailure(W, tid)
      ELSE IF T.todo # <<>>
      THEN Awaiting(Call(W, tid, T.todo[1].id, T.todo[1].val), tid,
                    [T EXCEPT !.todo = Tail(T.todo)])
      ELSE RunParse(W, tid, T.kind, T.parts)

\* ------------------------------------------------------------------------
\* The reconnect timer
\* ------------------------------------------------------------------------

\* (a variant that sets a new timer whether or not one is pending)
ScheduleAlways(W) == [W EXCEPT !.reconnectTimer = TRUE, !.timers = @ + 1]

\* this.reconnectTimer ||= setTimeout(..., 5000)
Schedule(W) ==
  IF W.reconnectTimer
  THEN [W EXCEPT !.hist.noop = TRUE]
  ELSE [W EXCEPT !.reconnectTimer = TRUE, !.timers = @ + 1]

\* if (this.reconnectTimer) { clearTimeout(this.reconnectTimer); this.reconnectTimer = null }
ClearTimer(W) ==
  IF W.reconnectTimer
  THEN [W EXCEPT !.reconnectTimer = FALSE, !.timers = @ - 1, !.hist.noop = FALSE]
  ELSE W

\* ------------------------------------------------------------------------
\* closePort and openPort
\* ------------------------------------------------------------------------

\* this.serialPort undefined, and a reference to a handle that has closed
NoPort == 0
DeadPort == -1

IsOpen(W) == W.serialPort \in HandleIds /\ W.handles[W.serialPort] = "open"

\* closePort() up to the promise it returns: an open port is asked to close
\* and the promise waits for the close callback (this.serialPort keeps the
\* handle); a handle that is not open is dropped; the promise is resolved.
closePort(W) ==
  IF W.serialPort = NoPort THEN [W EXCEPT !.wait = "ready", !.h = 0]
  ELSE IF IsOpen(W)
  THEN [W EXCEPT !.handles[W.serialPort] = "closing", !.wait = "close", !.h = W.serialPort]
  ELSE [W EXCEPT !.serialPort = NoPort, !.wait = "ready", !.h = 0]

\* openPort() up to its first await; from is the caller ("main", "timer",
\* "test", "detect") and result what a probing caller will answer
openPort(W, tid, from, result) ==
  Awaiting(closePort(W), tid,
           [pc |-> "op.closePort", kind |-> from, wait |-> "ready",
            h |-> closePort(W).h, result |-> result])

FreeHandle(W) ==
  CHOOSE i \in HandleIds :
    W.handles[i] = "free" /\ \A j \in HandleIds : W.handles[j] = "free" => i <= j

\* the end of openPort or of a probing command: a command answers its caller
Finish(W, tid) ==
  LET T == W.tasks[tid]
  IN  IF T.kind \in {"test", "detect"}
      THEN EndTask([W EXCEPT !.hist.reply = T.result], tid)
      ELSE EndTask(W, tid)

\* openPort after closePort: the handle is created, open() is called and the
\* data, error and close handlers are attached; a constructor that throws
\* (a configuration it rejects) goes to the catch, which reports the
\* connection as down and schedules a reconnect.
OpenPortCreate(W, tid) ==
  IF left.cfgOk
  THEN Finish([W EXCEPT !.handles[FreeHandle(W)] = "opening",
                        !.serialPort = FreeHandle(W)], tid)
  ELSE Awaiting(Call(W, tid, "info.connection", VBool(FALSE)), tid,
                [W.tasks[tid] EXCEPT !.pc = "op.catch"])

\* the body of the error and of the close handler after its await
AfterConnectionDown(W) == Schedule(W)

\* the error and the close handler up to their await
ConnectionDown(W, tid) ==
  Awaiting(Call(W, tid, "info.connection", VBool(FALSE)), tid,
           [pc |-> "ev.conn", kind |-> "event", wait |-> "ready"])

\* the open callback of the main port: both outcomes are only logged
OpenCallback(W, err) == W

\* ------------------------------------------------------------------------
\* test, detectBaudRate and testPort
\* ------------------------------------------------------------------------

baudRatesToTest == <<4800, 9600, 19200, 38400, 57600, 115200>>

\* testPort() up to its await of the open callback
testPort(W, tid) ==
  SetTask([W EXCEPT !.probe = "opening"], tid,
          [W.tasks[tid] EXCEPT !.pc = "tp.opening", !.wait = "probe", !.seen = FALSE])

\* test() and detectBaudRate() up to their first await; same says that the
\* probed path is the configured one
Command(W, tid, kind, same) ==
  LET T == [pc |-> "cmd.closePort", kind |-> kind, wait |-> "ready", h |-> 0,
            same |-> same, rate |-> 1, seen |-> FALSE, result |-> NoValue]
  IN  IF same THEN Awaiting(closePort(W), tid, [T EXCEPT !.h = closePort(W).h])
      ELSE testPort(SetTask(W, tid, T), tid)

\* (a variant in which the result of a probe is not looked at)
ProbeIgnored(receivedData) == FALSE

\* if (await this.testPort(port, baudRate)): what testPort returned
ProbeSucceeded(receivedData) == receivedData

\* history: the rates detectBaudRate has probed and what each probe saw
Probed(W, tid) ==
  IF W.tasks[tid].kind = "detect"
  THEN Log(W, "probed", [rate |-> baudRatesToTest[W.tasks[tid].rate],
                         found |-> W.tasks[tid].seen])
  ELSE W

\* history: a new command forgets the probes and the answer of the last one
Asked(W) == [W EXCEPT !.hist.probed = <<>>, !.hist.reply = NoValue]

\* what follows a probe, once the probe port is closed: test reopens the
\* main port when it closed it and answers; detectBaudRate answers the rate
\* that succeeded, goes on with the next rate, or gives up after the last
AfterProbe(W, tid) ==
  LET T == W.tasks[tid]
      found == ProbeSucceeded(T.seen)
      last == T.rate = Len(baudRatesToTest)
      answer == IF T.kind = "test" THEN VBool(found)
                ELSE IF found THEN Num(baudRatesToTest[T.rate]) ELSE Num(0)
      W1 == SetTask(W, tid, [T EXCEPT !.result = answer])
  IN  IF T.kind = "detect" /\ ~found /\ ~last
      THEN testPort(SetTask(W, tid, [T EXCEPT !.rate = @ + 1]), tid)
      ELSE IF T.same THEN openPort(W1, tid, T.kind, answer)
      ELSE Finish(W1, tid)

\* the probe port could not be opened: testPort rejects, so does the command,
\* and the message handler answers with an error
ProbeRejected(W, tid) ==
  EndTask([W EXCEPT !.probe = "none", !.hist.reply = Failed], tid)

\* ------------------------------------------------------------------------
\* One step of a task whose await was answered
\* ------------------------------------------------------------------------

Fault(W, origin) == [W EXCEPT !.faults = @ \cup {origin}]

Continue(W, tid, ok) ==
  LET T == W.tasks[tid]
  IN  CASE T.pc = "main.set" ->
             IF ok THEN openPort([W EXCEPT !.udpServer = TRUE], tid, "main", NoValue)
             ELSE EndTask(Fault(W, "main"), tid)
        [] T.pc = "op.closePort" -> OpenPortCreate(W, tid)
        [] T.pc = "op.catch" ->
             IF ok THEN Finish(Schedule(W), tid)
             ELSE IF T.kind \in {"test", "detect"}
             THEN EndTask([W EXCEPT !.hist.reply = Failed], tid)
             ELSE EndTask(W, tid)
        [] T.pc = "ev.conn" ->
             IF ok THEN EndTask(AfterConnectionDown(W), tid)
             ELSE EndTask(Fault(W, "event"), tid)
        [] T.pc = "udp.conn" ->
             IF ok THEN processReceivedData(W, tid, "udp", T.data \o <<LF>>)
             ELSE EndTask(Fault(W, "udp"), tid)
        [] T.pc \in {"pd.upd", "prd.line"} -> StreamResume(W, tid, ok)
        [] T.pc = "cmd.closePort" -> testPort(W, tid)
        [] T.pc = "u.udp" ->
             Awaiting(closePort(W), tid, [T EXCEPT !.pc = "u.closePort", !.h = closePort(W).h])
        [] T.pc = "u.closePort" -> EndTask([W EXCEPT !.unloaded = TRUE], tid)
        [] T.pc = "set.call" -> EndTask(W, tid)

\* the task that awaits the close callback of handle h, if any
Wake(W, what, h) ==
  [W EXCEPT !.tasks = [i \in TaskIds |->
     IF @[i] # Idle /\ @[i].wait = what /\ (h = 0 \/ @[i].h = h)
     THEN [@[i] EXCEPT !.wait = "ready"] ELSE @[i]]]

\* this.serialPort once handle h is closed
Closed(W, h) ==
  [W EXCEPT !.handles[h] = "free",
            !.serialPort = IF @ = h THEN DeadPort ELSE @]

\* ------------------------------------------------------------------------
\* Actions: the adapter's entry points and the events of its environment
\* ------------------------------------------------------------------------

Spend(what) == left' = [left EXCEPT ![what] = @ - 1]

\* history: the bytes that have arrived
Received(W, data) ==
  [W EXCEPT !.hist.rx = IF "rx" \in left.rec THEN @ \o data ELSE @]

\* ready: main() up to its await of the first write of info.connection
Ready ==
  /\ left.ready > 0
  /\ HasFreeTask
  /\ Commit(Awaiting(DirectWrite(World, FreeTask, "info.connection", VBool(FALSE)),
                     FreeTask, [pc |-> "main.set", kind |-> "main", wait |-> "ready"]))
  /\ Spend("ready")
  /\ UNCHANGED <<now, fn>>

Runnable(tid) ==
  /\ tasks[tid] # Idle
  /\ \/ tasks[tid].wait = "ready"
     \/ tasks[tid].wait = "sink" /\ sinkQueue # <<>> /\ Head(sinkQueue).task = tid
  /\ (tasks[tid].pc = "op.closePort" /\ left.cfgOk)
       => \E i \in HandleIds : handles[i] = "free"

\* the sink's answer to the oldest write, taken off the queue
Answered(W, tid, ok) ==
  IF W.tasks[tid].wait = "sink"
  THEN [W EXCEPT !.sinkQueue = Tail(@),
                 !.sink = IF ok THEN [@ EXCEPT ![Head(W.sinkQueue).id] = Head(W.sinkQueue).val]
                          ELSE @]
  ELSE W

\* a task goes on after its await: a resolved promise, or a write the sink
\* has stored
Resume(tid) ==
  /\ Runnable(tid)
  /\ Commit(Continue(Answered(World, tid, TRUE), tid, TRUE))
  /\ UNCHANGED <<now, left, fn>>

\* a task goes on after a write the sink has refused: its await throws
ResumeFailed(tid) ==
  /\ Runnable(tid)
  /\ tasks[tid].wait = "sink"
  /\ left.sinkFail > 0
  /\ Commit(Continue(Answered(World, tid, FALSE), tid, FALSE))
  /\ Spend("sinkFail")
  /\ UNCHANGED <<now, fn>>

\* the open callback of a main handle, without and with an error; whether
\* the device can be opened is the platform's answer, which the adapter does
\* not constrain
OpenOk(h) ==
  /\ handles[h] = "opening"
  /\ Commit(OpenCallback([World EXCEPT !.handles[h] = "open"], FALSE))
  /\ UNCHANGED <<now, left, fn>>

OpenFail(h) ==
  /\ handles[h] = "opening"
  /\ left.openFail > 0
  /\ Commit(OpenCallback(Closed(World, h), TRUE))
  /\ Spend("openFail")
  /\ UNCHANGED <<now, fn>>

\* the 'data' handler of a main handle
SerialData(h, data) ==
  /\ handles[h] = "open"
  /\ left.data > 0
  /\ HasFreeTask
  /\ Commit(processReceivedData(ClearTimer(Received(World, data)), FreeTask, "data", data))
  /\ Spend("data")
  /\ UNCHANGED <<now, fn>>

\* the 'error' handler of a main handle; the port stays as it is
ErrorEvent(h) ==
  /\ handles[h] = "open"
  /\ left.fault > 0
  /\ HasFreeTask
  /\ Commit(ConnectionDown(World, FreeTask))
  /\ Spend("fault")
  /\ UNCHANGED <<now, fn>>

\* the device goes away: the port closes by itself and emits 'close'
Disconnect(h) ==
  /\ handles[h] = "open"
  /\ left.fault > 0
  /\ HasFreeTask
  /\ Commit(ConnectionDown(Closed(World, h), FreeTask))
  /\ Spend("fault")
  /\ UNCHANGED <<now, fn>>

\* a close asked by closePort completes: 'close' is emitted, then the
\* callback resolves the promise of closePort
CloseDone(h) ==
  /\ handles[h] = "closing"
  /\ HasFreeTask
  /\ Commit(Wake(ConnectionDown(Closed(World, h), FreeTask), "close", h))
  /\ UNCHANGED <<now, left, fn>>

\* the reconnect timer fires
TimerFire ==
  /\ timers > 0
  /\ HasFreeTask
  /\ Commit(openPort([World EXCEPT !.timers = @ - 1, !.reconnectTimer = FALSE,
                                   !.hist.noop = FALSE],
                     FreeTask, "timer", NoValue))
  /\ UNCHANGED <<now, left, fn>>

\* the 'message' handler of the UDP socket, up to its first await
UdpMessage(data) ==
  /\ udpServer
  /\ left.udp > 0
  /\ HasFreeTask
  /\ Commit(Awaiting(Call(Received(World, data \o <<LF>>), FreeTask,
                          "info.connection", VBool(TRUE)),
                     FreeTask, [pc |-> "udp.conn", kind |-> "udp", wait |-> "ready",
                                data |-> toStringUtf8(data)]))
  /\ Spend("udp")
  /\ UNCHANGED <<now, fn>>

\* time passes
Tick(dt) ==
  /\ left.tick > 0
  /\ now' = now + dt
  /\ Spend("tick")
  /\ UNCHANGED <<serialPort, handles, reconnectTimer, timers, probe, udpServer,
                 recvBuffer, lastDate, lastStates, sink, sinkQueue, tasks, unloaded,
                 faults, hist, fn>>

NoCommand == \A i \in TaskIds : tasks[i] = Idle \/ tasks[i].kind \notin {"test", "detect"}

\* the 'test' and 'detectBaudRate' messages
TestCmd(same) ==
  /\ left.cmd > 0 /\ HasFreeTask /\ NoCommand /\ probe = "none"
  /\ Commit(Command(Asked(World), FreeTask, "test", same))
  /\ Spend("cmd")
  /\ UNCHANGED <<now, fn>>

DetectCmd(same) ==
  /\ left.cmd > 0 /\ HasFreeTask /\ NoCommand /\ probe = "none"
  /\ Commit(Command(Asked(World), FreeTask, "detect", same))
  /\ Spend("cmd")
  /\ UNCHANGED <<now, fn>>

Prober == CHOOSE i \in TaskIds : tasks[i] # Idle /\ tasks[i].wait \in {"probe", "window", "probeclose"}

\* the open callback of the probe port
ProbeOpenOk ==
  /\ probe = "opening"
  /\ Commit(SetTask([World EXCEPT !.probe = "open"], Prober,
                    [tasks[Prober] EXCEPT !.pc = "tp.window", !.wait = "window"]))
  /\ UNCHANGED <<now, left, fn>>

ProbeOpenFail ==
  /\ probe = "opening"
  /\ Commit(ProbeRejected(World, Prober))
  /\ UNCHANGED <<now, left, fn>>

\* the probe's data listener; marker says that the text received so far
\* holds one of $GPGGA, $GPRMC, $GNGGA, $GNRMC
ProbeData(marker) ==
  /\ probe = "open"
  /\ tasks[Prober].seen # (tasks[Prober].seen \/ marker)
  /\ Commit(SetTask(World, Prober, [tasks[Prober] EXCEPT !.seen = @ \/ marker]))
  /\ UNCHANGED <<now, left, fn>>

\* the 2-second window ends: the listener is removed and the probe closed
ProbeWindowEnd ==
  /\ probe = "open"
  /\ Commit(SetTask([World EXCEPT !.probe = "closing"], Prober,
                    [tasks[Prober] EXCEPT !.pc = "tp.closing", !.wait = "probeclose"]))
  /\ UNCHANGED <<now, left, fn>>

ProbeClosed ==
  /\ probe = "closing"
  /\ Commit(AfterProbe(Probed([World EXCEPT !.probe = "none"], Prober), Prober))
  /\ UNCHANGED <<now, left, fn>>

\* unload, up to its first await: the timer is cleared and the UDP server
\* asked to close
Unload ==
  /\ left.unload > 0
  /\ HasFreeTask
  /\ Commit(SetTask(ClearTimer(World), FreeTask,
                    [pc |-> "u.udp", kind |-> "unload", h |-> 0,
                     wait |-> IF udpServer THEN "udpclose" ELSE "ready"]))
  /\ Spend("unload")
  /\ UNCHANGED <<now, fn>>

\* the close callback of the UDP server
UdpClosed ==
  /\ \E i \in TaskIds : tasks[i] # Idle /\ tasks[i].wait = "udpclose"
  /\ Commit(Wake([World EXCEPT !.udpServer = FALSE], "udpclose", 0))
  /\ UNCHANGED <<now, left, fn>>

\* ------------------------------------------------------------------------
\* The state after construction
\* ------------------------------------------------------------------------

\* what the environment does in no run unless a specification grants it
NoEvents ==
  [ rec |-> {}, cfgOk |-> TRUE, ready |-> 0, openFail |-> 0, fault |-> 0, data |-> 0,
    udp |-> 0, tick |-> 0, cmd |-> 0, unload |-> 0, sinkFail |-> 0, calls |-> 0 ]

\* the fields of a new SerialGpsAdapter
Constructed ==
  /\ serialPort = NoPort
  /\ handles = [h \in HandleIds |-> "free"]
  /\ reconnectTimer = FALSE
  /\ timers = 0
  /\ probe = "none"
  /\ udpServer = FALSE
  /\ recvBuffer = <<>>
  /\ lastDate = <<>>
  /\ lastStates = [id \in Channels |-> NoEntry]
  /\ sink = [id \in Channels |-> NoValue]
  /\ sinkQueue = <<>>
  /\ now = 0
  /\ tasks = [i \in TaskIds |-> Idle]
  /\ unloaded = FALSE
  /\ faults = {}
  /\ hist = [rx |-> <<>>, lines |-> <<>>, decoded |-> <<>>, calls |-> <<>>,
             probed |-> <<>>, noop |-> FALSE, reply |-> NoValue]

Adapter ==
  <<serialPort, handles, reconnectTimer, timers, probe, udpServer, recvBuffer,
    lastDate, lastStates, sink, sinkQueue, now, tasks, unloaded, faults, hist>>

\* all texts of at most n characters over an alphabet
Texts(alphabet, n) == UNION {[1..k -> alphabet] : k \in 0..n}

\* ------------------------------------------------------------------------
\* verifyChecksum on its own
\* ------------------------------------------------------------------------

\* the longest body verified
MaxBody == 5

ChecksumAlphabet == {"K", "*", "4", "B", "b", " "}

InitChecksum ==
  /\ Constructed
  /\ left = NoEvents
  /\ \E s \in Texts(ChecksumAlphabet, MaxBody) :
       fn = [arg |-> s, out |-> NoValue, base |-> s, baseOut |-> NoValue, at |-> 0]

\* verifyChecksum(body)
Verify ==
  /\ fn.out = NoValue
  /\ fn' = [fn EXCEPT !.out = VBool(verifyChecksum(fn.arg))]
  /\ UNCHANGED <<Adapter, left>>

\* verifyChecksum of an accepted body that has a checksum, with its character
\* at i replaced by c
ChangeOne(i, c) ==
  /\ fn.out = VBool(TRUE)
  /\ indexOf(fn.arg, "*") # -1
  /\ fn.at = 0
  /\ i \in 1..Len(fn.arg)
  /\ c # fn.arg[i]
  /\ LET s == [fn.arg EXCEPT ![i] = c]
     IN  fn' = [arg |-> s, out |-> VBool(verifyChecksum(s)),
                base |-> fn.arg, baseOut |-> fn.out, at |-> i]
  /\ UNCHANGED <<Adapter, left>>

NextChecksum ==
  \/ Verify
  \/ \E i \in 1..MaxBody, c \in ChecksumAlphabet : ChangeOne(i, c)

SpecChecksum == InitChecksum /\ [][NextChecksum]_vars

\* the checksum a body announces: the XOR of the codes of the characters
\* before the first asterisk, as two uppercase hex digits
Announced(s) == padStart2(toHex(XorCodes(substring(s, 0, indexOf(s, "*")))))

\* C7 as stated: a body is accepted exactly when it has no asterisk or the
\* text after the first asterisk equals, case-insensitively, the announced
\* checksum; a body one character away from an accepted body that has a
\* checksum is rejected.
C7_AsStated ==
  fn.out # NoValue =>
    /\ fn.out.b = (indexOf(fn.arg, "*") = -1
                   \/ toUpperCase(substringFrom(fn.arg, indexOf(fn.arg, "*") + 1))
                        = Announced(fn.arg))
    /\ (fn.at > 0 /\ indexOf(fn.base, "*") # -1) => ~fn.out.b

\* C7, amended: a body is accepted exactly when it has no asterisk or the
\* text after the first asterisk, with the white space around it removed,
\* equals the announced checksum case-insensitively; a body that differs
\* from an accepted body with a checksum in one character before the
\* asterisk is rejected; a checksum text shorter than two characters is
\* rejected, and every call returns a boolean.
C7_Checksum ==
  fn.out # NoValue =>
    LET a == indexOf(fn.arg, "*")
        text == trim(substringFrom(fn.arg, a + 1))
    IN  /\ fn.out \in {VBool(TRUE), VBool(FALSE)}
        /\ fn.out.b = (a = -1 \/ toUpperCase(text) = Announced(fn.arg))
        /\ (a # -1 /\ Len(text) < 2) => ~fn.out.b
        /\ (fn.at > 0 /\ indexOf(fn.base, "*") >= fn.at) => ~fn.out.b

\* an accepted body with a checksum was changed in its payload and verified
\* again, and a body with a one-character checksum text was verified
C7_Witness ==
  /\ fn.at > 0
  /\ indexOf(fn.base, "*") >= fn.at
  /\ fn.baseOut = VBool(TRUE)
  /\ fn.out = VBool(FALSE)
  /\ Len(substringFrom(fn.arg, indexOf(fn.arg, "*") + 1)) = 2

\* ------------------------------------------------------------------------
\* setStateIfChangedAsync on its own
\* ------------------------------------------------------------------------

\* calls made, clock steps taken and sink writes refused in one run
MaxCalls == 3
MaxTicks == 2
MaxSinkFail == 1

\* the calls a run draws from: (id, value)
DebounceInputs ==
  { <<"gps.hdop", Num(1)>>, <<"gps.hdop", Num(2)>>, <<"gps.hdop", NaN>>,
    <<"gps.course", Num(1)>> }
ClockSteps == {1000, 60000}

InitDebounce ==
  /\ Constructed
  /\ fn = NoValue
  /\ left = [NoEvents EXCEPT !.rec = {"calls"}, !.calls = MaxCalls, !.tick = MaxTicks,
                             !.sinkFail = MaxSinkFail]

\* a caller awaits setStateIfChangedAsync(id, value)
SetCall(id, value) ==
  /\ left.calls > 0
  /\ HasFreeTask
  /\ Commit(Awaiting(Call(World, FreeTask, id, value), FreeTask,
                     [pc |-> "set.call", kind |-> "call", wait |-> "ready"]))
  /\ Spend("calls")
  /\ UNCHANGED <<now, fn>>

NextDebounce ==
  \/ \E in \in DebounceInputs : SetCall(in[1], in[2])
  \/ \E tid \in TaskIds : Resume(tid)
  \/ \E tid \in TaskIds : ResumeFailed(tid)
  \/ \E dt \in ClockSteps : Tick(dt)

SpecDebounce == InitDebounce /\ [][NextDebounce]_vars

\* the calls before the k-th that were forwarded for the same id, and the
\* last of them
ForwardedBefore(k) ==
  {j \in 1..(k - 1) : hist.calls[j].id = hist.calls[k].id /\ hist.calls[j].fwd}

LastOf(S) == CHOOSE j \in S : \A i \in S : i <= j

\* C3: a call forwards if and only if no value was recorded for its id (no
\* earlier call for it was forwarded), or its value differs (!==) from the
\* recorded one, or the recorded timestamp is at least 60 s old; the cache
\* entry of an id is the value and time of the last call forwarded for it, so
\* it is written exactly by the calls that forward; the sink is sent only
\* forwarded values, and once all writes are stored it holds the cached ones.
C3_Debounce ==
  LET c == hist.calls
      forwarded(id) == {j \in 1..Len(c) : c[j].id = id /\ c[j].fwd}
  IN  /\ \A k \in 1..Len(c) :
            c[k].fwd <=>
              \/ ForwardedBefore(k) = {}
              \/ c[k].val = NaN
              \/ c[k].val # c[LastOf(ForwardedBefore(k))].val
              \/ c[k].at - c[LastOf(ForwardedBefore(k))].at >= 60000
      /\ \A id \in Channels :
            lastStates[id] =
              IF forwarded(id) = {} THEN NoEntry
              ELSE [val |-> c[LastOf(forwarded(id))].val, ts |-> c[LastOf(forwarded(id))].at]
      /\ \A id \in Channels :
            sink[id] # NoValue => \E j \in forwarded(id) : c[j].val = sink[id]
      /\ (sinkQueue = <<>> /\ left.sinkFail = MaxSinkFail) =>
            \A id \in Channels :
              sink[id] = IF lastStates[id] = NoEntry THEN NoValue ELSE lastStates[id].val

\* the same value was sent three times for one id: forwarded, suppressed
\* less than 60 s later, and forwarded again at least 61 s after the first
C3_Witness ==
  /\ Len(hist.calls) = 3
  /\ \A k \in 1..3 : hist.calls[k].id = "gps.hdop" /\ hist.calls[k].val = Num(1)
  /\ hist.calls[1].fwd /\ ~hist.calls[2].fwd /\ hist.calls[3].fwd
  /\ hist.calls[2].at - hist.calls[1].at < 60000
  /\ hist.calls[3].at - hist.calls[1].at >= 61000
  /\ sinkQueue = <<>>
  /\ sink["gps.hdop"] = Num(1)

\* ------------------------------------------------------------------------
\* The serial stream: framing and decoding
\* ------------------------------------------------------------------------

\* chunks that arrive in one run
MaxData == 3

\* the chunks a run draws from, as bytes: a whole line, a line in two
\* pieces with a bad-checksum line and a further line behind it, and the two
\* bytes of U+00E9 apart
StreamChunks ==
  { <<"G", "S", "A", LF>>,
    <<"G", "S">>,
    <<"A", LF, "*", "1", LF, "G", "S", "A", LF>>,
    <<ByteC3>>,
    <<ByteA9, LF>> }

InitStream ==
  /\ Constructed
  /\ fn = NoValue
  /\ left = [NoEvents EXCEPT !.rec = {"rx", "lines", "decoded"}, !.ready = 1,
                             !.data = MaxData, !.sinkFail = MaxSinkFail]

NextStream ==
  \/ Ready
  \/ \E tid \in TaskIds : Resume(tid)
  \/ \E tid \in TaskIds : ResumeFailed(tid)
  \/ \E h \in HandleIds : OpenOk(h)
  \/ \E h \in HandleIds, data \in StreamChunks : SerialData(h, data)

SpecStream == InitStream /\ [][NextStream]_vars

InStream(tid) == tasks[tid] # Idle /\ tasks[tid].kind = "data"
StreamIdle == \A tid \in TaskIds : ~InStream(tid)
CountOf(s, ch) == Cardinality({i \in 1..Len(s) : s[i] = ch})

\* C4 as stated: the lines delivered so far followed by recvBuffer are the
\* text of the concatenation of all bytes received, however they were split
\* into chunks; each delivered line ends with its only terminator; once the
\* calls have finished recvBuffer holds no terminator.
C4_AsStated ==
  /\ Flatten(hist.lines) \o recvBuffer = toStringUtf8(hist.rx)
  /\ \A k \in 1..Len(hist.lines) :
       hist.lines[k][Len(hist.lines[k])] = LF /\ CountOf(hist.lines[k], LF) = 1
  /\ StreamIdle => CountOf(recvBuffer, LF) = 0

\* C9: no failure inside processReceivedData leaves it as an unhandled
\* fault; a call that is in flight can always go on (it is runnable, or its
\* write is with the sink); and once the calls have finished every
\* complete line received was handed to parseData and every sentence of
\* every line was taken up by the decoder, whatever happened to the lines
\* before it.
C9_Isolation ==
  /\ "stream" \notin faults
  /\ \A tid \in TaskIds :
       InStream(tid) =>
         \/ tasks[tid].wait = "ready"
         \/ tasks[tid].wait = "sink" /\ \E k \in 1..Len(sinkQueue) : sinkQueue[k].task = tid
  /\ StreamIdle =>
       /\ CountOf(recvBuffer, LF) = 0
       /\ Len(hist.lines) = CountOf(hist.rx, LF)
       /\ Len(hist.decoded) = Len(Flatten([k \in 1..Len(hist.lines) |-> Parts(hist.lines[k])]))

\* a sink write of the first sentence failed, a line with a bad checksum
\* followed, and the sentence behind them was decoded all the same
C9_Witness ==
  /\ StreamIdle
  /\ left.sinkFail = 0
  /\ sink["info.connection"] = VBool(FALSE)
  /\ Len(hist.decoded) = 3
  /\ SentenceKind(hist.decoded[2].body) = "rejected"
  /\ hist.decoded[3].ups # <<>>
  /\ sink["gps.fix_mode"] = NoValue
  /\ sink["gps.pdop"] = Num(0)
\* ------------------------------------------------------------------------
\* Coordinates: nmeaToDecimal on its own, and the GGA fixture over UDP
\* ------------------------------------------------------------------------

\* the longest coordinate field converted, and the datagrams of one run
MaxCoord == 5
MaxUdp == 1

CoordAlphabet == {"1", "3", ".", "x"}
Hemispheres == {Txt1("N"), Txt1("S"), Txt1("E"), Txt1("W"), <<>>}

\* the datagram of the adapter test
FixtureGga ==
  << "G", "N", "G", "G", "A", ",", "1", "9", "1", "7", "2", "1", ".", "0",
     "0", "0", ",", "4", "3", "3", "1", ".", "6", "6", "2", "9", ",", "N",
     ",", "0", "1", "5", "5", "7", ".", "8", "3", "9", "4", ",", "E", ",",
     "2", ",", "1", "8", ",", "0", ".", "7", "0", ",", "-", "4", ".", "7",
     ",", "M", ",", "4", "0", ".", "9", ",", "M", ",", ",", "*", "5", "F" >>

\* a run converts one coordinate field, or starts the adapter and receives
\* the fixture
InitCoord ==
  /\ Constructed
  /\ \/ /\ \E c \in Texts(CoordAlphabet, MaxCoord), h \in Hemispheres :
             fn = [on |-> "fn", coord |-> c, hemi |-> h, out |-> NoValue]
        /\ left = NoEvents
     \/ /\ fn = [on |-> "udp", coord |-> <<>>, hemi |-> <<>>, out |-> NoValue]
        /\ left = [NoEvents EXCEPT !.ready = 1, !.udp = MaxUdp]

\* nmeaToDecimal(coord, hemi)
ToDecimal ==
  /\ fn.on = "fn"
  /\ fn.out = NoValue
  /\ fn' = [fn EXCEPT !.out = nmeaToDecimal(fn.coord, fn.hemi)]
  /\ UNCHANGED <<Adapter, left>>

NextCoord ==
  \/ ToDecimal
  \/ Ready
  \/ \E tid \in TaskIds : Resume(tid)
  \/ UdpMessage(FixtureGga)

SpecCoord == InitCoord /\ [][NextCoord]_vars

\* what the claim expects of a well-formed field: p degree digits, then
\* minutes written as digits with one decimal point
AllDigits(s) == \A i \in 1..Len(s) : IsDigit(s[i])

WellFormed(coord, p) ==
  /\ Len(coord) > p
  /\ AllDigits(SubSeq(coord, 1, p))
  /\ CountOf(SubSeq(coord, p + 1, Len(coord)), ".") = 1
  /\ \A i \in (p + 1)..Len(coord) : IsDigit(coord[i]) \/ coord[i] = "."
  /\ Len(coord) > p + 1

\* minutes, from the digits before and after the point
MinutesOf(whole, frac) ==
  Rat(NatOfDigits(whole) * Pow10(Len(frac)) + NatOfDigits(frac), Pow10(Len(frac)))

ExpectedDecimal(coord, p, negative) ==
  LET rest == SubSeq(coord, p + 1, Len(coord))
      dot == indexOf(rest, ".")
      minutes == MinutesOf(SubSeq(rest, 1, dot), SubSeq(rest, dot + 2, Len(rest)))
      val == Rat(NatOfDigits(SubSeq(coord, 1, p)) * 60 * minutes.d + minutes.n,
                 60 * minutes.d)
  IN  IF negative THEN Rat(-val.n, val.d) ELSE val

Lat43 == Rat(43527715, 1000000)
Lon15 == Rat(1596399, 100000)

\* C6: the fixture received over UDP puts 43.527715 into gps.latitude and
\* 15.96399 into gps.longitude (nothing else is ever written there, and both
\* are written once the datagram is processed); nmeaToDecimal returns no
\* value for an empty field, a field without a decimal point and a field not
\* longer than the degree prefix (2 digits for N and S, 3 otherwise), and
\* for a well-formed field degrees + minutes/60, negated for S and W.
C6_Coordinates ==
  /\ fn.on = "udp" =>
       /\ sink["gps.latitude"] \in {NoValue, Lat43}
       /\ sink["gps.longitude"] \in {NoValue, Lon15}
       /\ (left.udp = 0 /\ \A tid \in TaskIds : tasks[tid] = Idle) =>
            sink["gps.latitude"] = Lat43 /\ sink["gps.longitude"] = Lon15
  /\ (fn.on = "fn" /\ fn.out # NoValue) =>
       LET p == IF fn.hemi \in {Txt1("N"), Txt1("S")} THEN 2 ELSE 3
       IN  /\ (fn.coord = <<>> \/ CountOf(fn.coord, ".") = 0 \/ Len(fn.coord) <= p)
                => fn.out = Null
           /\ WellFormed(fn.coord, p) =>
                fn.out = ExpectedDecimal(fn.coord, p, fn.hemi \in {Txt1("S"), Txt1("W")})

\* the fixture was received and both coordinates are in the sink
C6_Witness ==
  /\ fn.on = "udp"
  /\ left.udp = 0
  /\ sink["gps.latitude"] = Lat43
  /\ sink["gps.longitude"] = Lon15
  /\ sink["gps.latlon"] = Pair(Lat43, Lon15)
\* ------------------------------------------------------------------------
\* The carried date: RMC and GGA sentences over UDP
\* ------------------------------------------------------------------------

\* sentences in one datagram
MaxSentences == 3

RmcOn(date) == <<"$", "R", "M", "C", ",", "1", ",", ",", ",", ",", ",", ",", ",", ",">> \o date
GgaAtOne == <<"$", "G", "G", "A", ",", "1">>

\* the sentences a datagram is made of: RMC with a full date (2025, 1970,
\* 2069), with a date of four characters and with none, and GGA; all with
\* the time 01:00:00
DateSentences ==
  { RmcOn(<<"2", "3", "0", "1", "2", "5">>), RmcOn(<<"0", "1", "0", "1", "7", "0">>), RmcOn(<<"3", "1", "1", "2", "6", "9">>),
    RmcOn(<<"2", "3", "0", "1">>), RmcOn(<<>>), GgaAtOne }

Datagrams(n) ==
  UNION {{Flatten(ss) : ss \in [1..k -> DateSentences]} : k \in 1..n}

InitDate ==
  /\ Constructed
  /\ fn = NoValue
  /\ left = [NoEvents EXCEPT !.rec = {"decoded"}, !.ready = 1, !.udp = MaxUdp]

NextDate ==
  \/ Ready
  \/ \E tid \in TaskIds : Resume(tid)
  \/ \E data \in Datagrams(MaxSentences) : UdpMessage(data)

SpecDate == InitDate /\ [][NextDate]_vars

\* the date field of decoded sentence j when it is an RMC, else empty
RmcDate(j) ==
  IF SentenceKind(hist.decoded[j].body) = "RMC"
       /\ Len(Fields(hist.decoded[j].body)) >= 10
  THEN Fields(hist.decoded[j].body)[10] ELSE <<>>

\* the RMC sentences with a date field decoded before sentence k
DatedBefore(k) == {j \in 1..(k - 1) : RmcDate(j) # <<>>}

\* days since the epoch of the date written ddmmyy, 70..99 being 19yy and
\* 00..69 being 20yy (digits that are missing count as zero)
DaysOfDate(d) ==
  LET dd == NatOfDigits(SubSeq(d, 1, Min(2, Len(d))))
      mm == NatOfDigits(SubSeq(d, 3, Min(4, Len(d))))
      yy == NatOfDigits(SubSeq(d, 5, Min(6, Len(d))))
  IN  DaysFromCivil(IF yy >= 70 THEN 1900 + yy ELSE 2000 + yy, mm) + dd - 1

HostDays == DaysFromCivil(HostDate.year, HostDate.month + 1) + HostDate.day - 1

\* the day of the gps.timestamp that decoded sentence k sent
StampDays(k) == hist.decoded[k].ups[1].val.days

IsGga(k) == SentenceKind(hist.decoded[k].body) = "GGA"

\* C8 as stated: the timestamp of a GGA has the date of the most recent RMC
\* decoded before it whose date field is not empty, and the host's date when
\* there is none.
C8_AsStated ==
  \A k \in 1..Len(hist.decoded) :
    IsGga(k) =>
      StampDays(k) = IF DatedBefore(k) = {} THEN HostDays
                     ELSE DaysOfDate(RmcDate(LastOf(DatedBefore(k))))

\* C8, amended: the timestamp of a GGA has the date of the most recent RMC
\* decoded before it whose date field is not empty, provided that field has
\* at least six characters; when it is shorter, or no such RMC was decoded,
\* it has the host's current UTC date.  An RMC's own timestamp follows the
\* same rule with its own date field.  230125 is 23 January 2025; a year of
\* 70 or more is 19yy, a smaller one 20yy.
C8_CarriedDate ==
  /\ DaysOfDate(<<"2", "3", "0", "1", "2", "5">>) = DaysFromCivil(2025, 1) + 22
  /\ \A k \in 1..Len(hist.decoded) :
       /\ IsGga(k) =>
            StampDays(k) =
              IF DatedBefore(k) = {} \/ Len(RmcDate(LastOf(DatedBefore(k)))) < 6
              THEN HostDays
              ELSE DaysOfDate(RmcDate(LastOf(DatedBefore(k))))
       /\ SentenceKind(hist.decoded[k].body) = "RMC" =>
            hist.decoded[k].ups[IF RmcDate(k) = <<>> THEN 1 ELSE 2].val.days =
              IF Len(RmcDate(k)) < 6 THEN HostDays ELSE DaysOfDate(RmcDate(k))

\* an RMC dated 230125 and then a GGA were decoded, the GGA was stamped
\* 23 January 2025 and the stamp is in the sink
C8_Witness ==
  /\ Len(hist.decoded) = 2
  /\ RmcDate(1) = <<"2", "3", "0", "1", "2", "5">>
  /\ IsGga(2)
  /\ StampDays(2) = DaysFromCivil(2025, 1) + 22
  /\ sink["gps.timestamp"] = [t |-> "ts", days |-> DaysFromCivil(2025, 1) + 22, ms |-> 3600000]
  /\ \A tid \in TaskIds : tasks[tid] = Idle
\* ------------------------------------------------------------------------
\* The connection: open, faults, reconnect, unload
\* ------------------------------------------------------------------------

\* failed opens and error/close events in one run
MaxOpenFail == 1
MaxFaults == 2

\* a chunk without a line terminator: the data handler only buffers it
QuietChunk == <<"x">>

InitConn ==
  /\ Constructed
  /\ fn = NoValue
  /\ \E ok \in BOOLEAN :
       left = [NoEvents EXCEPT !.cfgOk = ok, !.ready = 1, !.unload = 1,
                               !.openFail = MaxOpenFail, !.fault = MaxFaults,
                               !.data = MaxData, !.sinkFail = MaxSinkFail]

NextConn ==
  \/ Ready
  \/ \E tid \in TaskIds : Resume(tid)
  \/ \E tid \in TaskIds : ResumeFailed(tid)
  \/ \E h \in HandleIds : OpenOk(h)
  \/ \E h \in HandleIds : OpenFail(h)
  \/ \E h \in HandleIds : SerialData(h, QuietChunk)
  \/ \E h \in HandleIds : ErrorEvent(h)
  \/ \E h \in HandleIds : Disconnect(h)
  \/ \E h \in HandleIds : CloseDone(h)
  \/ TimerFire
  \/ Unload
  \/ UdpClosed

SpecConn == InitConn /\ [][NextConn]_vars

\* C1: at most one reconnect timer is live, and it is the one
\* reconnectTimer holds: a schedule made while it is set creates no timer, so
\* whatever the number of error and close events before the delay ends, one
\* timer fires and calls openPort once.
C1_OneTimer ==
  /\ timers \in {0, 1}
  /\ reconnectTimer <=> timers = 1

\* a reconnect was asked for while the timer was pending, and one timer is live
C1_Witness ==
  /\ hist.noop
  /\ timers = 1
  /\ left.fault = 0
\* nothing is running or pending: every handler has finished and no port is
\* opening, open or closing
Quiet ==
  /\ \A i \in TaskIds : tasks[i] = Idle
  /\ \A h \in HandleIds : handles[h] = "free"
  /\ probe = "none"

\* the adapter has started, unload has not begun and no sink write failed
Running == left.ready = 0 /\ left.unload > 0 /\ left.sinkFail = MaxSinkFail

\* a failed open, an 'error' event or an unexpected 'close' has happened
Faulted == left.openFail < MaxOpenFail \/ left.fault < MaxFaults

\* C2 as stated: after a transport fault of the main port the transport
\* never stays closed without a pending reconnect; once every handler has
\* finished and no port is left, a reconnect timer is pending.
C2_AsStated == (Quiet /\ Running /\ Faulted) => reconnectTimer

\* a step in which the open callback reports success, or the data handler runs
Opened == \E h \in HandleIds : handles[h] = "opening" /\ handles'[h] = "open"
DataArrived == left'.data < left.data

\* C10 as stated: a port that opens successfully and inbound data both clear
\* a pending reconnect timer; after either event reconnectTimer is null and
\* no timer is left to fire.
C10_AsStated == [][(Opened \/ DataArrived) => (~reconnectTimer' /\ timers' = 0)]_vars

\* ------------------------------------------------------------------------
\* The probing commands beside the connection
\* ------------------------------------------------------------------------

\* test and detectBaudRate messages in one run
MaxCmds == 1

InitProbe ==
  /\ Constructed
  /\ fn = NoValue
  /\ left = [NoEvents EXCEPT !.rec = {"probed"}, !.ready = 1, !.cmd = MaxCmds,
                               !.openFail = MaxOpenFail]

NextProbe ==
  \/ Ready
  \/ \E tid \in TaskIds : Resume(tid)
  \/ \E h \in HandleIds : OpenOk(h)
  \/ \E h \in HandleIds : OpenFail(h)
  \/ \E h \in HandleIds : CloseDone(h)
  \/ TimerFire
  \/ \E same \in BOOLEAN : TestCmd(same)
  \/ \E same \in BOOLEAN : DetectCmd(same)
  \/ ProbeOpenOk
  \/ ProbeOpenFail
  \/ \E marker \in BOOLEAN : ProbeData(marker)
  \/ ProbeWindowEnd
  \/ ProbeClosed

SpecProbe == InitProbe /\ [][NextProbe]_vars

\* the probe port is on the configured path
ProbeOnMainPath == probe # "none" /\ tasks[Prober].same

\* C5 as stated: the probe port and a handle of the main port are never
\* open at the same time on the same path.
C5_AsStated ==
  ~(ProbeOnMainPath /\ probe = "open" /\ \E h \in HandleIds : handles[h] = "open")
\* a step in which the probing command of task i ends (its answer is sent)
CommandEnds(i) == tasks[i].kind \in {"test", "detect"} /\ tasks'[i] = Idle

\* the command ends inside the openPort it called after its probes
EndsInOpenPort(i) == tasks[i].pc \in {"op.closePort", "op.catch"}

\* C11 as stated: a test or detectBaudRate on the configured path calls
\* openPort again before it finishes, in every outcome of the probe; a
\* command that ends without having reached openPort was not on the
\* configured path.
C11_AsStated ==
  [][\A i \in TaskIds : (CommandEnds(i) /\ ~EndsInOpenPort(i)) => ~tasks[i].same]_vars
\* the answer of a detectBaudRate command: a rate, or 0 for none found
DetectAnswered == hist.reply # NoValue /\ hist.reply.t = "num"

\* C12: detectBaudRate probes 4800, 9600, 19200, 38400, 57600, 115200 in
\* that order, probes no further rate after a probe that succeeded, answers
\* the rate of the probe that succeeded, and answers 0 only after all six
\* rates were probed without success.
C12_DetectOrder ==
  LET p == hist.probed
  IN  /\ Len(p) <= Len(baudRatesToTest)
      /\ \A k \in 1..Len(p) : p[k].rate = baudRatesToTest[k]
      /\ \A k \in 1..(Len(p) - 1) : ~p[k].found
      /\ DetectAnswered =>
           /\ p # <<>>
           /\ p[Len(p)].found => hist.reply = Num(p[Len(p)].rate)
           /\ ~p[Len(p)].found => (hist.reply = Num(0) /\ Len(p) = Len(baudRatesToTest))

\* the third rate succeeded after two that did not, and was answered
C12_Witness ==
  /\ DetectAnswered
  /\ Len(hist.probed) = 3
  /\ hist.probed[3].found
  /\ hist.reply = Num(19200)
\* the answers that report a result: detected or not, a rate or none found
Results == {VBool(TRUE), VBool(FALSE)} \cup {Num(r) : r \in {0} \cup {baudRatesToTest[k] : k \in 1..6}}

\* C13 as stated: a failed probe (the probe port cannot be opened, or no
\* marker is seen) is answered with the negative result and never as an
\* exception: every answer of a command is a result.
C13_AsStated == hist.reply # NoValue => hist.reply \in Results
\* ------------------------------------------------------------------------
\* The framer on two sentences, the second one unterminated and cut in two
\* ------------------------------------------------------------------------

FirstSentence == <<"$", "R", "M", "C">>
SecondSentence == <<"$", "G", "G", "A">>

\* "$RMC\n$GGA": what is sent
TwoSentences == FirstSentence \o <<LF>> \o SecondSentence

\* the two chunks of every cut inside the second sentence, and the
\* terminator that may arrive later
FramerChunks ==
  UNION {{substring(TwoSentences, 0, Len(FirstSentence) + 1 + k),
          substringFrom(TwoSentences, Len(FirstSentence) + 1 + k)} :
         k \in 1..(Len(SecondSentence) - 1)}
    \cup {<<LF>>}

NextFramer ==
  \/ Ready
  \/ \E tid \in TaskIds : Resume(tid)
  \/ \E tid \in TaskIds : ResumeFailed(tid)
  \/ \E h \in HandleIds : OpenOk(h)
  \/ \E h \in HandleIds, data \in FramerChunks : SerialData(h, data)

SpecFramer == InitStream /\ [][NextFramer]_vars

\* the two sentences have arrived in two chunks and every handler has finished
AllArrived == hist.rx = TwoSentences /\ left.data = MaxData - 2 /\ StreamIdle

\* a terminator has arrived behind them
Terminated == hist.rx = TwoSentences \o <<LF>> /\ left.data = MaxData - 3 /\ StreamIdle

\* the sentences decoded so far, as they were handed to the decoder
DecodedBodies == [k \in 1..Len(hist.decoded) |-> hist.decoded[k].body]

\* C14 as stated: once both chunks have arrived, exactly the two sentences
\* sent have been reconstructed and decoded.
C14_AsStated == AllArrived => DecodedBodies = <<Tail(FirstSentence), Tail(SecondSentence)>>

\* C14, amended: once both chunks have arrived, the first sentence has been
\* decoded and the second one is held back whole in recvBuffer, equal to
\* what was sent; it is decoded, as the second of exactly two sentences,
\* once a line terminator has arrived behind it.
C14_Framed ==
  /\ AllArrived => (DecodedBodies = <<Tail(FirstSentence)>> /\ recvBuffer = SecondSentence)
  /\ Terminated =>
       (DecodedBodies = <<Tail(FirstSentence), Tail(SecondSentence)>> /\ recvBuffer = <<>>)

\* both chunks have arrived, the cut being inside the second sentence, and
\* the second sentence waits in the buffer
C14_Witness == AllArrived /\ recvBuffer = SecondSentence /\ Len(hist.decoded) = 1
\* ------------------------------------------------------------------------
\* The debounce gate in front of the sink
\* ------------------------------------------------------------------------

\* a step in which a write is sent to the sink
WriteSent ==
  IF sinkQueue = <<>> THEN sinkQueue' # <<>>
  ELSE sinkQueue' # <<>> /\ sinkQueue' \notin {sinkQueue, Tail(sinkQueue)}

\* the write sent last
LastSent == sinkQueue'[Len(sinkQueue')]

\* C15 as stated: every write to the sink goes through
\* setStateIfChangedAsync; whenever a write is sent, the cache entry of its
\* id has just been recorded with the value written and the time of the call.
C15_AsStated ==
  [][WriteSent => lastStates'[LastSent.id] = [val |-> LastSent.val, ts |-> now']]_vars
\* ------------------------------------------------------------------------
\* The decoder on sentences that differ in their talker id
\* ------------------------------------------------------------------------

TalkerLetters == {"G", "P", "N"}
Talkers == {<<x, y>> : x, y \in TalkerLetters}
Suffixes == {GGA, RMC, GSA, <<"G", "L", "L">>}

\* what follows the type: the fields of the test's GGA sentence, a lone
\* fix quality, or nothing
Tails ==
  { substring(FixtureGga, 5, indexOf(FixtureGga, "*")),
    <<",", ",", ",", ",", ",", ",", "1">>,
    <<>> }

\* a sentence body of talker t, with its correct checksum or none
BodyOf(t, suffix, tail, sum) ==
  IF sum THEN t \o suffix \o tail \o <<"*">> \o padStart2(toHex(XorCodes(t \o suffix \o tail)))
  ELSE t \o suffix \o tail

InitTalker ==
  /\ Constructed
  /\ left = NoEvents
  /\ \E t1 \in Talkers, t2 \in Talkers, suffix \in Suffixes, tail \in Tails,
        sum \in BOOLEAN, date \in {<<>>, <<"2", "3", "0", "1", "2", "5">>} :
       fn = [a |-> BodyOf(t1, suffix, tail, sum), b |-> BodyOf(t2, suffix, tail, sum),
             suffix |-> suffix, date |-> date, out |-> NoValue]

\* both sentences are decoded from the same carried date
DecodeBoth ==
  /\ fn.out = NoValue
  /\ fn' = [fn EXCEPT !.out = [a |-> SentenceUpdates(fn.a, fn.date),
                               b |-> SentenceUpdates(fn.b, fn.date),
                               kindA |-> SentenceKind(fn.a),
                               kindB |-> SentenceKind(fn.b)]]
  /\ UNCHANGED <<Adapter, left>>

NextTalker == DecodeBoth

SpecTalker == InitTalker /\ [][NextTalker]_vars

\* C16: two sentences that differ only in their two-letter talker id (each
\* with its own correct checksum, or none) give the same channel updates
\* with the same values, in the same order; which branch decodes a sentence
\* depends only on the GGA, RMC or GSA suffix of its first field.
C16_TalkerIndependent ==
  fn.out # NoValue =>
    /\ fn.out.a = fn.out.b
    /\ fn.out.kindA = fn.out.kindB
    /\ fn.out.kindA = (IF fn.suffix \in {GGA, RMC, GSA} THEN KindOf(fn.suffix) ELSE "unhandled")

\* the test's GGA sentence under two different talker ids, each with its
\* checksum: both give the position of the test
C16_Witness ==
  /\ fn.out # NoValue
  /\ fn.a # fn.b
  /\ fn.suffix = GGA
  /\ indexOf(fn.a, "*") # -1
  /\ \E k \in 1..Len(fn.out.a) :
       fn.out.a[k] = Upd("gps.latitude", Rat(8705543, 200000))
\* ------------------------------------------------------------------------
\* Data events that overlap
\* ------------------------------------------------------------------------

\* the handlers that are inside parseData, at the await of a sink write
InParseData == {tid \in TaskIds : tasks[tid] # Idle /\ tasks[tid].pc = "pd.upd"}

\* C17 as stated: sentences are decoded one at a time, also when a further
\* data event arrives while an earlier chunk is still being processed;
\* parseData of a line starts only after parseData of every earlier line
\* has completed, so at most one handler is inside parseData.
C17_AsStated == Cardinality(InParseData) <= 1
\* ------------------------------------------------------------------------
\* The serial port and the UDP socket side by side
\* ------------------------------------------------------------------------

\* what the serial port delivers: the start of a sentence, and a whole line
SerialChunks == {<<"$", "G", "S">>, <<"$", "G", "S", LF>>}

\* what the UDP socket delivers: the end of a sentence
Datagram == <<"A">>

SerialText == {"$", "G", "S", LF}
UdpText == {"A", LF}

InitSources ==
  /\ Constructed
  /\ fn = NoValue
  /\ left = [NoEvents EXCEPT !.rec = {"lines", "decoded"}, !.ready = 1,
                             !.data = MaxData, !.udp = MaxUdp]

NextSources ==
  \/ Ready
  \/ \E tid \in TaskIds : Resume(tid)
  \/ \E h \in HandleIds : OpenOk(h)
  \/ \E h \in HandleIds, data \in SerialChunks : SerialData(h, data)
  \/ UdpMessage(Datagram)

SpecSources == InitSources /\ [][NextSources]_vars

\* text that came from one source only
OneSource(text) ==
  \/ \A i \in 1..Len(text) : text[i] \in SerialText
  \/ \A i \in 1..Len(text) : text[i] \in UdpText

\* C18 as stated: recvBuffer never holds bytes of more than one source, and
\* no line handed to parseData is made of bytes of both.
C18_AsStated ==
  /\ OneSource(recvBuffer)
  /\ \A k \in 1..Len(hist.lines) : OneSource(hist.lines[k])
\* ------------------------------------------------------------------------
\* The buffer across a close of the port
\* ------------------------------------------------------------------------

\* no serial port is open: none was opened yet, or every one has closed
TransportClosed == \A h \in HandleIds : handles[h] \in {"free", "opening"}

\* C19 as stated: the pending buffer is emptied whenever the transport
\* closes; while no port is open recvBuffer is empty, so that a fragment
\* received before a close is not joined with bytes received after the
\* reconnect.
C19_AsStated == TransportClosed => recvBuffer = <<>>
\* a decoded sentence whose connection signal reported a valid fix
ValidFixDecoded ==
  \E k \in 1..Len(hist.decoded) :
    \E j \in 1..Len(hist.decoded[k].ups) :
      hist.decoded[k].ups[j] = Upd("info.connection", VBool(TRUE))

\* C20 as stated: info.connection is written only when the transport goes
\* down (false) and by the connection signal of a decoded GGA or RMC
\* sentence, so its value in the sink is true only if a decoded sentence
\* reported a valid fix.
C20_AsStated == sink["info.connection"] = VBool(TRUE) => ValidFixDecoded
\* ------------------------------------------------------------------------
\* The fields of a sentence: one line over the serial port
\* ------------------------------------------------------------------------

\* lines received in one run
MaxLines == 1

\* fields joined by commas
RECURSIVE Join(_)
Join(fs) == IF Len(fs) = 1 THEN fs[1] ELSE fs[1] \o <<",">> \o Join(Tail(fs))

\* field values: a time (none, 01:00:00, not a number), a position (valid,
\* no latitude, a longitude without decimal point), a fix quality, a status,
\* a date, and the other numbers of a sentence (a number, not a number)
TimeFields == {<<>>, <<"1">>, <<"x">>}
GoodLat == <<<<"4", "3", "3", "0", ".", "0">>, <<"N">>>>
GoodLon == <<<<"0", "1", "5", "3", "0", ".", "0">>, <<"E">>>>
PosFields ==
  { GoodLat \o GoodLon,
    <<<<>>, <<"N">>>> \o GoodLon,
    GoodLat \o <<<<"1", "5">>, <<"E">>>> }
FixFields == {<<>>, <<"0">>, <<"1">>, <<"x">>, <<"-", "1">>}
StatusFields == {<<"A">>, <<"V">>, <<>>}
DateFields == {<<>>, <<"2", "3", "0", "1", "2", "5">>, <<"x", "x", "x", "x", "x", "x">>}
NumFields == {<<"2">>, <<"x">>}

GgaBodies ==
  { Join(<<<<"G", "P">> \o GGA, t>> \o p \o <<f, n, n, n>>) :
      t \in TimeFields, p \in PosFields, f \in FixFields, n \in NumFields }

RmcBodies ==
  { Join(<<<<"G", "P">> \o RMC, t, st>> \o p \o <<n, n, d>>) :
      t \in TimeFields, st \in StatusFields, p \in PosFields, n \in NumFields,
      d \in DateFields }

GsaBodies ==
  { Join(<<<<"G", "P">> \o GSA, <<"A">>, m, <<>>, <<>>, <<>>, <<>>, <<>>, <<>>, <<>>,
           <<>>, <<>>, <<>>, <<>>, <<>>, n, n, n>>) :
      m \in {<<>>, <<"2">>, <<"3">>}, n \in NumFields }

\* a type alone, a type that is not handled, and bodies whose checksum is
\* not the one announced
BareBodies == {<<"G", "P">> \o GGA, <<"G", "P">> \o RMC, <<"G", "P">> \o GSA}
OtherBodies == {<<"G", "P", "G", "L", "L", ",", "1">>}
BadSum == <<"*", "0", "0">>
MismatchBodies ==
  {b \o BadSum : b \in BareBodies}
    \cup {Join(<<<<"G", "P">> \o RMC, <<"1">>, <<"A">>>> \o GoodLat \o GoodLon
               \o <<<<"2">>, <<"2">>, <<"0", "1", "0", "1", "7", "0">>>>) \o BadSum}

FieldBodies ==
  GgaBodies \cup RmcBodies \cup GsaBodies \cup BareBodies \cup OtherBodies
    \cup MismatchBodies

\* a sentence that may come first in the line: an RMC dated 230125
DatedRmc ==
  <<"$">> \o Join(<<<<"G", "P">> \o RMC, <<"1">>, <<"A">>, <<>>, <<>>, <<>>, <<>>, <<>>,
                    <<>>, <<"2", "3", "0", "1", "2", "5">>>>)

FieldLines == {pre \o <<"$">> \o b \o <<LF>> : pre \in {<<>>, DatedRmc}, b \in FieldBodies}

InitFields ==
  /\ Constructed
  /\ fn = NoValue
  /\ left = [NoEvents EXCEPT !.rec = {"decoded", "calls"}, !.ready = 1, !.data = MaxLines]

NextFields ==
  \/ Ready
  \/ \E tid \in TaskIds : Resume(tid)
  \/ \E h \in HandleIds : OpenOk(h)
  \/ \E h \in HandleIds, line \in FieldLines : SerialData(h, line)

SpecFields == InitFields /\ [][NextFields]_vars

\* the type and the fields of decoded sentence k
TypeOfDecoded(k) == Fields(hist.decoded[k].body)[1]
FieldOfDecoded(k, i) == Field(Fields(hist.decoded[k].body), i)
Accepted(k) == verifyChecksum(hist.decoded[k].body)
IsA(k, suffix) == Accepted(k) /\ endsWith(TypeOfDecoded(k), suffix)

\* the values decoded sentence k sent to a channel
ValuesFor(k, id) ==
  LET ups == hist.decoded[k].ups
  IN  [j \in 1..Len(SelectSeq(ups, LAMBDA u : u.id = id)) |->
         SelectSeq(ups, LAMBDA u : u.id = id)[j].val]

\* the integer a field text starts with; 0 for a field that is missing or
\* starts with no integer
LeadingInteger(f) ==
  IF f = UNDEF \/ LeadingDigits(Unsigned(trimStart(f))) = <<>> THEN 0
  ELSE IF Negative(trimStart(f)) THEN -NatOfDigits(LeadingDigits(Unsigned(trimStart(f))))
  ELSE NatOfDigits(LeadingDigits(Unsigned(trimStart(f))))

\* the connection signal the claim gives sentence k: none for GSA
SignalOf(k) ==
  IF IsA(k, GGA) THEN <<VBool(LeadingInteger(FieldOfDecoded(k, 6)) > 0)>>
  ELSE IF IsA(k, RMC) THEN <<VBool(FieldOfDecoded(k, 2) = <<"A">>)>>
  ELSE <<>>

ConnectionCalls == SelectSeq(hist.calls, LAMBDA c : c.id = "info.connection")

\* C21: a GGA sentence signals the connection as true exactly when its fix
\* quality field starts with an integer greater than 0 (a missing or
\* non-numeric field counts as 0), an RMC sentence exactly when its status
\* field is A, and a GSA sentence sends nothing to info.connection; every
\* value setStateIfChangedAsync is called with for info.connection is the
\* signal of a decoded sentence, and once the line is processed there is one
\* such call per decoded GGA or RMC sentence.
C21_ConnectionSignal ==
  /\ \A k \in 1..Len(hist.decoded) : ValuesFor(k, "info.connection") = SignalOf(k)
  /\ \A j \in 1..Len(ConnectionCalls) :
       \E k \in 1..Len(hist.decoded) : SignalOf(k) = <<ConnectionCalls[j].val>>
  /\ (StreamIdle /\ \A tid \in TaskIds : tasks[tid] = Idle) =>
       Len(ConnectionCalls) = Cardinality({k \in 1..Len(hist.decoded) : SignalOf(k) # <<>>})

\* a GGA whose fix quality is 1 was decoded behind an RMC, its signal was
\* true and is in the sink
C21_Witness ==
  /\ Len(hist.decoded) = 2
  /\ IsA(2, GGA)
  /\ FieldOfDecoded(2, 6) = <<"1">>
  /\ ValuesFor(2, "info.connection") = <<VBool(TRUE)>>
  /\ Len(ConnectionCalls) = 2
  /\ sink["info.connection"] = VBool(TRUE)
  /\ \A tid \in TaskIds : tasks[tid] = Idle
\* a body the decoder does not decode: its checksum does not match, or its
\* type ends in none of GGA, RMC, GSA
Undecodable(body) ==
  \/ ~verifyChecksum(body)
  \/ \A suffix \in {GGA, RMC, GSA} : ~endsWith(Fields(body)[1], suffix)

\* a step in which parseData took up sentences, all of them not decodable
OnlyUndecodableTaken ==
  /\ Len(hist'.decoded) > Len(hist.decoded)
  /\ \A k \in (Len(hist.decoded) + 1)..Len(hist'.decoded) :
       Undecodable(hist'.decoded[k].body)

\* C22: a sentence that is not decodable is a no-op: it makes no call of
\* setStateIfChangedAsync, no write is sent to the sink for it, and the
\* carried date and every entry of the debounce cache stay as they are.
C22_UndecodableNoOp ==
  [][OnlyUndecodableTaken =>
       /\ \A k \in (Len(hist.decoded) + 1)..Len(hist'.decoded) :
            hist'.decoded[k].ups = <<>>
       /\ hist'.calls = hist.calls
       /\ sinkQueue' \in {sinkQueue, IF sinkQueue = <<>> THEN <<>> ELSE Tail(sinkQueue)}
       /\ lastDate' = lastDate
       /\ lastStates' = lastStates]_vars

\* an RMC dated 010170 whose checksum does not match was passed over behind
\* an RMC dated 230125: the carried date and the cached date are still those
\* of the first
C22_Witness ==
  /\ Len(hist.decoded) = 2
  /\ ~verifyChecksum(hist.decoded[2].body)
  /\ endsWith(Fields(hist.decoded[2].body)[1], RMC)
  /\ lastDate = <<"2", "3", "0", "1", "2", "5">>
  /\ lastStates["gps.date"] # NoEntry
  /\ lastStates["gps.date"].val = VStr(<<"2", "3", "0", "1", "2", "5">>)
  /\ sink["gps.date"] = VStr(<<"2", "3", "0", "1", "2", "5">>)
  /\ \A tid \in TaskIds : tasks[tid] = Idle
PositionChannels == {"gps.latitude", "gps.longitude", "gps.position", "gps.latlon"}

\* the index of the latitude field of decoded sentence k: 2 in GGA, 3 in RMC
LatIndex(k) == IF IsA(k, GGA) THEN 2 ELSE 3

\* a coordinate of decoded sentence k failed to decode
CoordinateFails(k) ==
  \/ nmeaToDecimal(FieldOfDecoded(k, LatIndex(k)), FieldOfDecoded(k, LatIndex(k) + 1)) = Null
  \/ nmeaToDecimal(FieldOfDecoded(k, LatIndex(k) + 2), FieldOfDecoded(k, LatIndex(k) + 3)) = Null

\* the fields with the four coordinate fields from index i on replaced by
\* valid ones (fields that are missing before them are empty)
WithCoordinates(fields, i) ==
  [j \in 1..Max(Len(fields), i + 4) |->
     IF j \in (i + 1)..(i + 4) THEN (GoodLat \o GoodLon)[j - i]
     ELSE IF j <= Len(fields) THEN fields[j] ELSE <<>>]

\* this.lastDate when sentence k was taken up: the date of the last RMC with
\* a date field decoded before it
DatedRmcs(k) == {j \in 1..(k - 1) : IsA(j, RMC) /\ ~Falsy(FieldOfDecoded(j, 9))}
CarriedBefore(k) ==
  IF DatedRmcs(k) = {} THEN <<>> ELSE FieldOfDecoded(LastOf(DatedRmcs(k)), 9)

\* what sentence k would have sent with valid coordinates
WithValidPosition(k) ==
  UpdatesOf(IF IsA(k, GGA) THEN "GGA" ELSE "RMC",
            WithCoordinates(Fields(hist.decoded[k].body), LatIndex(k)),
            CarriedBefore(k))

IdsOf(ups) == [j \in 1..Len(ups) |-> ups[j].id]
PositionIds == <<"gps.latitude", "gps.longitude", "gps.position", "gps.latlon">>

\* ups is what valid sends, without the four position updates valid holds
SentWithout(ups, valid) ==
  /\ ups = SelectSeq(valid, LAMBDA u : u.id \notin PositionChannels)
  /\ IdsOf(SelectSeq(valid, LAMBDA u : u.id \in PositionChannels)) = PositionIds

\* C23: when the latitude or the longitude of a GGA or RMC sentence fails to
\* decode, the sentence sends nothing to gps.latitude, gps.longitude,
\* gps.position and gps.latlon, and what it sends to all other channels is
\* what the same sentence with valid coordinates sends to them, in the same
\* order; a sentence whose coordinates both decode sends to all four.
C23_PositionOnly ==
  \A k \in 1..Len(hist.decoded) :
    (IsA(k, GGA) \/ IsA(k, RMC)) =>
      IF CoordinateFails(k)
      THEN SentWithout(hist.decoded[k].ups, WithValidPosition(k))
      ELSE IdsOf(SelectSeq(hist.decoded[k].ups, LAMBDA u : u.id \in PositionChannels))
             = PositionIds

\* a GGA without latitude was processed: time, fix quality 1, satellites,
\* HDOP and altitude are in the sink, the position channels are not
C23_Witness ==
  /\ Len(hist.decoded) = 1
  /\ IsA(1, GGA)
  /\ FieldOfDecoded(1, 2) = <<>>
  /\ \A id \in PositionChannels : sink[id] = NoValue /\ lastStates[id] = NoEntry
  /\ sink["gps.timestamp"] # NoValue
  /\ sink["gps.fix_quality"] = Num(1)
  /\ sink["gps.satellites"] = Num(2)
  /\ sink["gps.hdop"] = Num(2)
  /\ sink["gps.altitude"] = Num(2)
  /\ sink["info.connection"] = VBool(TRUE)
  /\ \A tid \in TaskIds : tasks[tid] = Idle
\* C24 as stated: a numeric field that fails to parse gives 0 for its
\* channel or no update of it; a not-a-number value is never sent to the
\* sink, never stored by it and never stored in the debounce cache.
C24_AsStated ==
  /\ \A id \in Channels :
       /\ sink[id] # NaN
       /\ lastStates[id] # NoEntry => lastStates[id].val # NaN
  /\ \A k \in 1..Len(sinkQueue) : sinkQueue[k].val # NaN
\* ------------------------------------------------------------------------
\* The handles of the main port
\* ------------------------------------------------------------------------

\* the handles openPort created that are opening or open
LiveHandles == {h \in HandleIds : handles[h] \in {"opening", "open"}}

\* C25 as stated: every openPort closes the handle held before it creates a
\* new one, so at most one handle of the main port is open or opening, and
\* each such handle is the one this.serialPort refers to.
C25_AsStated ==
  /\ Cardinality(LiveHandles) <= 1
  /\ \A h \in LiveHandles : serialPort = h
\* ------------------------------------------------------------------------
\* After unload
\* ------------------------------------------------------------------------

\* a handler that is inside the openPort the reconnect timer called
InOpenPort(tid) == tasks[tid] # Idle /\ tasks[tid].kind = "timer"

\* C26 as stated: once the unload handler has completed, no reconnect timer
\* is pending and none fires: the 'close' event of unload's own closePort
\* leads to no later openPort.
C26_AsStated ==
  unloaded =>
    /\ ~reconnectTimer
    /\ timers = 0
    /\ \A tid \in TaskIds : ~InOpenPort(tid)
\* ------------------------------------------------------------------------
\* The adapter's own close of the main port
\* ------------------------------------------------------------------------

\* C27 as stated: a close the adapter performs itself (closePort in openPort,
\* test or detectBaudRate) schedules no reconnect; only an error or an
\* unexpected close does.  Where the environment is granted no error and no
\* close by the device (left.fault is 0 from the start) and the configuration
\* is accepted, no reconnect timer is ever pending and none fires.
C27_AsStated ==
  (left.cfgOk /\ left.fault = 0) =>
    /\ ~reconnectTimer
    /\ timers = 0
    /\ \A tid \in TaskIds : ~InOpenPort(tid)
\* ------------------------------------------------------------------------
\* Lines that arrive while an earlier line is being processed
\* ------------------------------------------------------------------------

\* lines that arrive in one run
MaxArrivals == 2

\* a GGA at 01:00:00 with HDOP 5, and a GSA with HDOP 7
GgaHdop5 == <<"$">> \o Join(<<GGA, <<"1">>, <<>>, <<>>, <<>>, <<>>, <<>>, <<>>, <<"5">>>>) \o <<LF>>
GsaHdop7 ==
  <<"$">> \o Join(<<GSA, <<>>, <<>>, <<>>, <<>>, <<>>, <<>>, <<>>, <<>>, <<>>, <<>>,
                    <<>>, <<>>, <<>>, <<>>, <<>>, <<"7">>>>) \o <<LF>>

InitOrder ==
  /\ Constructed
  /\ fn = NoValue
  /\ left = [NoEvents EXCEPT !.rec = {"decoded"}, !.ready = 1, !.data = MaxArrivals]

NextOrder ==
  \/ Ready
  \/ \E tid \in TaskIds : Resume(tid)
  \/ \E h \in HandleIds : OpenOk(h)
  \/ \E h \in HandleIds, line \in {GgaHdop5, GsaHdop7} : SerialData(h, line)

SpecOrder == InitOrder /\ [][NextOrder]_vars

\* the decoded sentences that sent a value to a channel, in order of arrival
UpdatersOf(id) == {k \in 1..Len(hist.decoded) : ValuesFor(k, id) # <<>>}

\* the value the latest-arrived of them carried for it
LatestValue(id) ==
  ValuesFor(LastOf(UpdatersOf(id)), id)[Len(ValuesFor(LastOf(UpdatersOf(id)), id))]

\* C28 as stated: whenever no handler is suspended at an await, for every
\* channel a sentence has updated the sink and the debounce cache both hold
\* the value carried by the latest-arrived sentence that updated it; an
\* earlier sentence never overwrites the update of a later one.
C28_AsStated ==
  (\A tid \in TaskIds : tasks[tid] = Idle) =>
    \A id \in Channels :
      UpdatersOf(id) # {} =>
        /\ sink[id] = LatestValue(id)
        /\ lastStates[id] # NoEntry
        /\ lastStates[id].val = LatestValue(id)
=============================================================================
